---- MODULE Spec2Model ----
\* A model of djikmz: the typed records of a DJI waypoint mission (actions,
\* action groups, triggers, mission configuration, KML document) with their
\* validation, their mapping to and from the "wpml:" key/value tree, and the
\* list operations of an action group.
EXTENDS Integers, Sequences, FiniteSets, TLC

\* ------------------------------------------------------------------------
\* Python values.  Every value is a record of one shape so that any two
\* values can be compared:
\*   k = "none"    None
\*   k = "num"     an int or a float; n holds the value in tenths, so that
\*                 1 == 1.0 (both n = 10) and 0.4 is n = 4
\*   k = "str"     a str (a str-Enum member is equal to its value)
\*   k = "numeral" the str that str(x) gives for the number x (n in tenths)
\*   k = "dict"    c maps keys to values
\*   k = "list"    c is the sequence of items
\*   k = "obj"     a model instance: s is the class, c maps field names to values
\*   k = "err"     a raised exception, s is its type
\*   k = "bool"    True (n = 1) or False (n = 0)
\*   k = "joined"  the str ",".join(parts), c the sequence of parts
\* ------------------------------------------------------------------------
None == [k |-> "none", n |-> 0, s |-> "", c |-> <<>>]
Tenths(n) == [k |-> "num", n |-> n, s |-> "", c |-> <<>>]
Dec(units, tenths) == 10 * units + tenths
Num(i) == Tenths(Dec(i, 0))
Str(x) == [k |-> "str", n |-> 0, s |-> x, c |-> <<>>]
Numeral(n) == [k |-> "numeral", n |-> n, s |-> "", c |-> <<>>]
Dict(f) == [k |-> "dict", n |-> 0, s |-> "", c |-> f]
List(q) == [k |-> "list", n |-> 0, s |-> "", c |-> q]
Obj(cls, f) == [k |-> "obj", n |-> 0, s |-> cls, c |-> f]
Err(e) == [k |-> "err", n |-> 0, s |-> e, c |-> <<>>]
Bool(b) == [k |-> "bool", n |-> IF b THEN 1 ELSE 0, s |-> "", c |-> <<>>]
Joined(parts) == [k |-> "joined", n |-> 0, s |-> "", c |-> parts]
IsErr(v) == v.k = "err"
EmptyDict == Dict(<<>>)

\* bool(v): Python truthiness, as used by "and value" / "if value"
Truthy(v) ==
    CASE v.k = "none" -> FALSE
      [] v.k = "num" -> v.n # 0
      [] v.k = "str" -> v.s # ""
      [] v.k = "numeral" -> TRUE
      [] v.k = "dict" -> DOMAIN v.c # {}
      [] v.k = "list" -> Len(v.c) > 0
      [] v.k = "bool" -> v.n = 1
      [] OTHER -> TRUE

\* int(v)
PyInt(v) ==
    CASE v.k = "num" -> Tenths(v.n - (v.n % 10))
      [] v.k = "numeral" -> IF v.n % 10 = 0 THEN Tenths(v.n) ELSE Err("ValueError")
      [] v.k = "str" -> Err("ValueError")
      [] OTHER -> Err("TypeError")

\* float(v)
PyFloat(v) ==
    CASE v.k = "num" -> v
      [] v.k = "numeral" -> Tenths(v.n)
      [] v.k = "str" -> Err("ValueError")
      [] OTHER -> Err("TypeError")

\* ------------------------------------------------------------------------
\* Keys of a mapping: the sequence of the pieces of the key text, the
\* namespace prefix "wpml:" being a piece of its own.
\* ------------------------------------------------------------------------
Wpml(name) == <<"wpml:", name>>
Bare(name) == <<name>>
\* key.replace("wpml:", "")
StripPrefix(key) == SelectSeq(key, LAMBDA t : t # "wpml:")

\* a keyword set from a sequence of <<name, value>> pairs
Kw(pairs) ==
    [name \in {pairs[i][1] : i \in 1..Len(pairs)} |->
        pairs[CHOOSE i \in 1..Len(pairs) : pairs[i][1] = name][2]]

\* the keyword set kw with name set to v
Extend(kw, name, v) ==
    [x \in DOMAIN kw \cup {name} |-> IF x = name THEN v ELSE kw[x]]

\* d.get(key, default) on the mapping d
Get(d, key, default) == IF key \in DOMAIN d THEN d[key] ELSE default

\* {k.replace("wpml:", ""): v for k, v in d.items()}
StripKeys(d) ==
    [k2 \in {StripPrefix(k1) : k1 \in DOMAIN d} |->
        d[CHOOSE k1 \in DOMAIN d : StripPrefix(k1) = k2]]

\* ------------------------------------------------------------------------
\* Field schema: one descriptor per pydantic field.
\*   ty: "int" | "float" | "str" | "lens" | "oneof" | "enum" (a str Enum) |
\*       "intenum" (an int Enum, vals in tenths) | "nonetype" (annotated None)
\*   opt: None is an accepted value; ge / gt / le: sets holding the bound (in
\*   tenths) when the field declares one; vals: accepted tokens;
\*   checked: a field_validator restricts the tokens to vals.
\* ------------------------------------------------------------------------
Fld(name, alias, ty, opt, ge, gt, le, vals, checked, def) ==
    [name |-> name, alias |-> alias, ty |-> ty, opt |-> opt, ge |-> ge,
     gt |-> gt, le |-> le, vals |-> vals, checked |-> checked, def |-> def]
FInt(name, alias, lo, hi, def) ==
    Fld(name, alias, "int", FALSE, {Dec(lo, 0)}, {}, {Dec(hi, 0)}, {}, FALSE, Num(def))
FIntOpt(name, alias) == Fld(name, alias, "int", TRUE, {}, {}, {}, {}, FALSE, None)
FFloat(name, alias, ge, le, def) ==
    Fld(name, alias, "float", FALSE, ge, {}, le, {}, FALSE, Tenths(def))
FFloatOpt(name, alias) == Fld(name, alias, "float", TRUE, {}, {}, {}, {}, FALSE, None)
FStr(name, alias, def) == Fld(name, alias, "str", FALSE, {}, {}, {}, {}, FALSE, Str(def))
FStrOpt(name, alias) == Fld(name, alias, "str", TRUE, {}, {}, {}, {}, FALSE, None)
FOneOf(name, alias, vals, def) ==
    Fld(name, alias, "oneof", FALSE, {}, {}, {}, vals, TRUE, Str(def))

PAYLOAD_LENS == {"zoom", "wide", "ir", "narrow_band", "visable"}
\* payload_lens: PAYLOAD_LENS|str|None, with or without the validate_payload_lens validator
FLens(name, alias, checked) ==
    Fld(name, alias, "lens", TRUE, {}, {}, {}, PAYLOAD_LENS, checked, None)

ActionType ==
    {"takePhoto", "startRecord", "stopRecord", "gimbalRotate", "hover",
     "rotateYaw", "focus", "zoom", "accurateShoot", "orientedShoot",
     "panoShot", "recordPointCloud", "gimbalEvenlyRotate"}

\* the two fields of class Action, inherited by every action class
ActionFields ==
    << FInt("action_id", "actionId", 0, 65535, 0),
       Fld("action_type", "actionActuatorFunc", "enum", FALSE, {}, {}, {},
           ActionType, TRUE, None) >>

TakePhotoAction ==
    << FInt("payload_position", "payloadPositionIndex", 0, 2, 0),
       FStr("file_suffix", "fileSuffix", ""),
       FLens("payload_lens", "payloadLensIndex", TRUE),
       FInt("use_global_payload_lens_index", "useGlobalPayloadLensIndex", 0, 1, 0) >>

StartRecordAction ==
    << FInt("payload_position", "payloadPositionIndex", 0, 2, 0),
       FLens("payload_lens", "payloadLens", FALSE),
       FStrOpt("file_suffix", "fileSuffix"),
       FInt("use_global_payload_lens_index", "useGlobalPayloadLensIndex", 0, 1, 0) >>

StopRecordAction ==
    << FInt("payload_position", "payloadPositionIndex", 0, 2, 0),
       FLens("payload_lens", "payloadLens", FALSE) >>

GimbalRotateAction ==
    << FInt("payload_position", "payloadPositionIndex", 0, 2, 0),
       FOneOf("gimbal_rotate_mode", "gimbalRotateMode", {"absoluteAngle"}, "absoluteAngle"),
       FInt("gimbal_pitch_rotate_enable", "gimbalPitchRotateEnable", 0, 1, 0),
       FFloat("gimbal_pitch_rotate_angle", "gimbalPitchRotateAngle", {}, {}, 0),
       FInt("gimbal_roll_rotate_enable", "gimbalRollRotateEnable", 0, 1, 0),
       FFloat("gimbal_roll_rotate_angle", "gimbalRollRotateAngle", {}, {}, 0),
       FInt("gimbal_yaw_rotate_enable", "gimbalYawRotateEnable", 0, 1, 0),
       FFloat("gimbal_yaw_rotate_angle", "gimbalYawRotateAngle", {}, {}, 0),
       FInt("gimbal_rotate_time_enable", "gimbalRotateTimeEnable", 0, 1, 0),
       FFloat("gimbal_rotate_time", "gimbalRotateTime", {}, {}, 0),
       FOneOf("heading_base", "gimbalHeadingYawBase", {"north"}, "north") >>

GimbalEvenlyRotateAction ==
    << FInt("payload_position", "payloadPositionIndex", 0, 2, 0),
       FFloat("pitch_rotate_angle", "gimbalPitchRotateAngle", {}, {}, 0) >>

HoverAction ==
    << Fld("hover_time", "hoverTime", "float", FALSE, {}, {0}, {}, {}, FALSE, Num(1)) >>

RotateYawAction ==
    << FFloat("aircraft_heading", "aircraftHeading", {Dec(-180, 0)}, {Dec(180, 0)}, 0),
       FOneOf("direction", "aircraftPathMode", {"clockwise", "counterClockwise"}, "clockwise") >>

FocusAction ==
    << FInt("payload_position", "payloadPositionIndex", 0, 2, 0),
       FInt("is_point_focus", "isPointFocus", 0, 1, 0),
       FFloat("focus_x", "focusX", {0}, {Dec(1, 0)}, Dec(0, 4)),
       FFloat("focus_y", "focusY", {0}, {Dec(1, 0)}, Dec(0, 4)),
       FFloat("focus_region_width", "focusRegionWidth", {0}, {Dec(1, 0)}, Dec(0, 2)),
       FFloat("focus_region_height", "focusRegionHeight", {0}, {Dec(1, 0)}, Dec(0, 2)),
       FInt("is_infinite_focus", "isInfiniteFocus", 0, 1, 0) >>

ZoomAction ==
    << FInt("payload_position", "payloadPositionIndex", 0, 2, 0),
       FFloat("focal_length", "focalLength", {Dec(24, 0)}, {Dec(240, 0)}, Dec(24, 0)) >>

\* the fields AccurateShootAction and OrientedShootAction declare alike
ShootFields ==
    << FFloat("gimbal_pitch", "gimbalPitchRotateAngle", {Dec(-120, 0)}, {Dec(45, 0)}, 0),
       FFloat("gimbal_yaw", "gimbalYawRotateAngle", {Dec(-180, 0)}, {Dec(180, 0)}, 0),
       FInt("focus_x", "focusX", 0, 960, 460),
       FInt("focus_y", "focusY", 0, 720, 340),
       FInt("focus_width", "focusRegionWidth", 0, 960, 40),
       FInt("focus_height", "focusRegionHeight", 0, 720, 40),
       FFloat("focal_length", "focalLength", {0}, {}, Dec(24, 0)),
       FFloat("drone_heading", "aircraftHeading", {Dec(-180, 0)}, {Dec(180, 0)}, 0),
       FInt("ai_spot_check", "accurateFrameValid", 0, 1, 0),
       FInt("payload_position", "payloadPositionIndex", 0, 2, 0),
       FLens("payload_lens", "payloadLensIndex", TRUE),
       FInt("use_global_payload_lens_index", "useGlobalPayloadLensIndex", 0, 1, 0),
       FFloat("target_angle", "targetAngle", {0}, {Dec(360, 0)}, 0),
       FInt("image_width", "imageWidth", 960, 960, 960),
       FInt("image_height", "imageHeight", 720, 720, 720),
       FIntOpt("afpos", "AFPos"),
       FInt("gimbal_port", "gimbalPort", 0, 0, 0) >>

AccurateShootAction ==
    ShootFields \o
    << FInt("camera_type", "accurateCameraType", 0, 100, 52),
       FStrOpt("file_path", "accurateFilePath"),
       FStrOpt("file_md5", "accurateFileMD5"),
       FIntOpt("file_size", "accurateFileSize"),
       FStr("file_suffix", "accurateFileSuffix", ""),
       FIntOpt("apertue", "accurateCameraApertue"),
       FIntOpt("luminance", "accurateCameraLuminance"),
       FFloatOpt("exposure_time", "accurateCameraShutterTime"),
       FIntOpt("iso", "accurateCameraISO") >>

OrientedShootAction ==
    ShootFields \o
    << FStrOpt("uuid", "actionUUID"),
       FInt("camera_type", "orientedCameraType", 0, 100, 52),
       FStrOpt("file_path", "orientedFilePath"),
       FStrOpt("file_md5", "orientedFileMD5"),
       FIntOpt("file_size", "orientedFileSize"),
       FStr("file_suffix", "orientedFileSuffix", ""),
       FIntOpt("apertue", "orientedCameraApertue"),
       FIntOpt("luminance", "orientedCameraLuminance"),
       FFloatOpt("exposure_time", "orientedCameraShutterTime"),
       FIntOpt("iso", "orientedCameraISO"),
       FOneOf("photo_mode", "orientedPhotoMode",
              {"normalPhoto", "lowLightSmartShooting"}, "normalPhoto") >>

PanoShotAction ==
    << FInt("payload_position", "payloadPositionIndex", 0, 2, 0),
       FLens("payload_lens", "payloadLensIndex", TRUE),
       FInt("use_global_payload_lens_index", "useGlobalPayloadLensIndex", 0, 1, 0),
       FStr("pano_mode", "panoShotSubMode", "panoShot_360") >>

POINT_CLOUD_OPERATION == {"startRecord", "stopRecord", "pauseRecord", "resumeRecord"}

RecordPointCloudAction ==
    << FInt("payload_position", "payloadPositionIndex", 0, 2, 0),
       Fld("operation", "recordPointCloudOperate", "enum", FALSE, {}, {}, {},
           POINT_CLOUD_OPERATION, TRUE, Str("startRecord")) >>

\* ------------------------------------------------------------------------
\* Action type registry
\* ------------------------------------------------------------------------
\* ACTION_REGISTRY with StopRecordAction registered under the kind of StartRecordAction
ACTION_REGISTRY_clash ==
    [kind \in ActionType \ {"stopRecord"} |->
        CASE kind = "startRecord" -> "StopRecordAction"
          [] kind = "takePhoto" -> "TakePhotoAction"
          [] kind = "gimbalRotate" -> "GimbalRotateAction"
          [] kind = "gimbalEvenlyRotate" -> "GimbalEvenlyRotateAction"
          [] kind = "hover" -> "HoverAction"
          [] kind = "rotateYaw" -> "RotateYawAction"
          [] kind = "focus" -> "FocusAction"
          [] kind = "zoom" -> "ZoomAction"
          [] kind = "accurateShoot" -> "AccurateShootAction"
          [] kind = "orientedShoot" -> "OrientedShootAction"
          [] kind = "panoShot" -> "PanoShotAction"
          [] kind = "recordPointCloud" -> "RecordPointCloudAction"]

\* ACTION_REGISTRY after every @register_action decorator has run
ACTION_REGISTRY ==
    [kind \in ActionType |->
        CASE kind = "takePhoto" -> "TakePhotoAction"
          [] kind = "startRecord" -> "StartRecordAction"
          [] kind = "stopRecord" -> "StopRecordAction"
          [] kind = "gimbalRotate" -> "GimbalRotateAction"
          [] kind = "gimbalEvenlyRotate" -> "GimbalEvenlyRotateAction"
          [] kind = "hover" -> "HoverAction"
          [] kind = "rotateYaw" -> "RotateYawAction"
          [] kind = "focus" -> "FocusAction"
          [] kind = "zoom" -> "ZoomAction"
          [] kind = "accurateShoot" -> "AccurateShootAction"
          [] kind = "orientedShoot" -> "OrientedShootAction"
          [] kind = "panoShot" -> "PanoShotAction"
          [] kind = "recordPointCloud" -> "RecordPointCloudAction"]

ActionClasses == {ACTION_REGISTRY[kind] : kind \in DOMAIN ACTION_REGISTRY}

\* the fields an action class declares itself ("Action" is the base class)
OwnFields(cls) ==
    CASE cls = "TakePhotoAction" -> TakePhotoAction
      [] cls = "StartRecordAction" -> StartRecordAction
      [] cls = "StopRecordAction" -> StopRecordAction
      [] cls = "GimbalRotateAction" -> GimbalRotateAction
      [] cls = "GimbalEvenlyRotateAction" -> GimbalEvenlyRotateAction
      [] cls = "HoverAction" -> HoverAction
      [] cls = "RotateYawAction" -> RotateYawAction
      [] cls = "FocusAction" -> FocusAction
      [] cls = "ZoomAction" -> ZoomAction
      [] cls = "AccurateShootAction" -> AccurateShootAction
      [] cls = "OrientedShootAction" -> OrientedShootAction
      [] cls = "PanoShotAction" -> PanoShotAction
      [] cls = "RecordPointCloudAction" -> RecordPointCloudAction
      [] OTHER -> << >>

\* type(self).model_fields of an action class: inherited fields first
model_fields(cls) == ActionFields \o OwnFields(cls)

FieldNames(fs) == {fs[i].name : i \in 1..Len(fs)}
FieldAliases(fs) == {fs[i].alias : i \in 1..Len(fs)}
FieldNamed(fs, name) == fs[CHOOSE i \in 1..Len(fs) : fs[i].name = name]
\* a later field of the same alias overwrites an earlier one in a dict comprehension
FieldAliased(fs, alias) ==
    fs[CHOOSE i \in 1..Len(fs) :
          /\ fs[i].alias = alias
          /\ \A j \in 1..Len(fs) : fs[j].alias = alias => j <= i]

\* ------------------------------------------------------------------------
\* pydantic validation of one field value (lax mode)
\* ------------------------------------------------------------------------
InBounds(fd, n) ==
    /\ \A b \in fd.ge : n >= b
    /\ \A b \in fd.gt : n > b
    /\ \A b \in fd.le : n <= b

ValidateField_unbounded(fd, v) ==
    CASE v.k = "none" -> IF fd.opt THEN None ELSE Err("ValidationError")
      [] v.k \in {"num", "numeral"} ->
           CASE fd.ty = "int" ->
                  IF v.n % 10 = 0
                  THEN Tenths(v.n) ELSE Err("ValidationError")
             [] fd.ty = "float" ->
                  IF InBounds(fd, v.n) THEN Tenths(v.n) ELSE Err("ValidationError")
             [] fd.ty = "intenum" ->
                  IF v.n \in fd.vals THEN Tenths(v.n) ELSE Err("ValidationError")
             [] fd.ty \in {"str", "lens"} /\ v.k = "numeral" ->
                  IF fd.checked THEN Err("ValidationError") ELSE v
             [] OTHER -> Err("ValidationError")
      [] v.k = "str" ->
           CASE fd.ty \in {"str", "lens", "oneof", "enum"} ->
                  IF fd.checked /\ v.s \notin fd.vals
                  THEN Err("ValidationError") ELSE v
             [] OTHER -> Err("ValidationError")
      [] OTHER -> Err("ValidationError")
ValidateField(fd, v) ==
    CASE v.k = "none" -> IF fd.opt THEN None ELSE Err("ValidationError")
      [] v.k \in {"num", "numeral"} ->
           CASE fd.ty = "int" ->
                  IF v.n % 10 = 0 /\ InBounds(fd, v.n)
                  THEN Tenths(v.n) ELSE Err("ValidationError")
             [] fd.ty = "float" ->
                  IF InBounds(fd, v.n) THEN Tenths(v.n) ELSE Err("ValidationError")
             [] fd.ty = "intenum" ->
                  IF v.n \in fd.vals THEN Tenths(v.n) ELSE Err("ValidationError")
             [] fd.ty \in {"str", "lens"} /\ v.k = "numeral" ->
                  IF fd.checked THEN Err("ValidationError") ELSE v
             [] OTHER -> Err("ValidationError")
      [] v.k = "str" ->
           CASE fd.ty \in {"str", "lens", "oneof", "enum"} ->
                  IF fd.checked /\ v.s \notin fd.vals
                  THEN Err("ValidationError") ELSE v
             [] OTHER -> Err("ValidationError")
      [] OTHER -> Err("ValidationError")

\* Field values of cls(**kw): a keyword that names no field is ignored, a
\* field without keyword takes its default, which is not validated.
FieldValues(fs, kw) ==
    [name \in FieldNames(fs) |->
        IF name \in DOMAIN kw
        THEN ValidateField(FieldNamed(fs, name), kw[name])
        ELSE FieldNamed(fs, name).def]

\* Action.validate_action_type: the value pydantic hands over is already an
\* ActionType member, so the validator accepts it whatever the class is.
validate_action_type(cls, value) == value

\* Action.model_post_init: an unset kind tag is looked up in the registry
model_post_init(cls, vals) ==
    IF vals["action_type"] = None
    THEN IF \E kind \in DOMAIN ACTION_REGISTRY : ACTION_REGISTRY[kind] = cls
         THEN Obj(cls, [vals EXCEPT !["action_type"] =
                  Str(CHOOSE kind \in DOMAIN ACTION_REGISTRY : ACTION_REGISTRY[kind] = cls)])
         ELSE Err("ValueError")
    ELSE Obj(cls, [vals EXCEPT !["action_type"] = validate_action_type(cls, @)])

\* cls(**kw) for an action class
NewAction(cls, kw) ==
    LET validated(vals) == IF \E name \in DOMAIN vals : IsErr(vals[name])
                           THEN Err("ValidationError")
                           ELSE model_post_init(cls, vals)
    IN  validated(FieldValues(model_fields(cls), kw))

\* ------------------------------------------------------------------------
\* Action.to_dict / Action.from_dict
\* ------------------------------------------------------------------------
\* AliasedData with "if getattr(self, name)" in place of "is not None"
AliasedData_falsy(fs, vals) ==
    LET present == {i \in 1..Len(fs) : Truthy(vals[fs[i].name])}
    IN  [alias \in {fs[i].alias : i \in present} |->
            vals[FieldAliased(fs, alias).name]]

\* {alias: getattr(self, name) for the fields whose value is not None}
AliasedData(fs, vals) ==
    LET present == {i \in 1..Len(fs) : vals[fs[i].name] # None}
    IN  [alias \in {fs[i].alias : i \in present} |->
            vals[FieldAliased(fs, alias).name]]

Action_to_dict(a) ==
    LET header_keys == FieldAliases(ActionFields)
        header(data) == [key \in {Wpml(al) : al \in header_keys \cap DOMAIN data} |->
                            data[key[2]]]
        action_params(data) == [key \in {Wpml(al) : al \in DOMAIN data \ header_keys} |->
                                   data[key[2]]]
        merged(data) ==
            [key \in {Wpml(al) : al \in header_keys \cap DOMAIN data}
                       \cup {Wpml("actionActuatorFuncParam")} |->
                IF key = Wpml("actionActuatorFuncParam")
                THEN Dict(action_params(data)) ELSE header(data)[key]]
    IN  Dict(merged(AliasedData(model_fields(a.s), a.c)))

\* ActionType(value)
ToActionType(value) ==
    IF value.k = "str" /\ value.s \in ActionType THEN value ELSE Err("ValueError")

\* cls.from_dict(data); data is a "dict" value
Action_from_dict(cls, data) ==
    LET action_id == PyInt(Get(data.c, Wpml("actionId"), Num(0)))
        action_type == ToActionType(Get(data.c, Wpml("actionActuatorFunc"), None))
        action_cls == IF action_type.s \in DOMAIN ACTION_REGISTRY
                      THEN ACTION_REGISTRY[action_type.s] ELSE cls
        raw == Get(data.c, Wpml("actionActuatorFuncParam"), EmptyDict)
        cls_params_data == StripKeys(raw.c)
        taken(cls_fields) ==
            {i \in 1..Len(cls_fields) :
                /\ Bare(cls_fields[i].alias) \in DOMAIN cls_params_data
                /\ cls_params_data[Bare(cls_fields[i].alias)] # None}
        cls_params(cls_fields) ==
            [name \in {cls_fields[i].name : i \in taken(cls_fields)} \cup {"action_id"} |->
                IF name = "action_id" THEN action_id
                ELSE cls_params_data[Bare(FieldNamed(cls_fields, name).alias)]]
    IN  CASE IsErr(action_id) -> action_id
          [] IsErr(action_type) -> action_type
          [] raw.k # "dict" -> Err("AttributeError")
          [] OTHER -> NewAction(action_cls, cls_params(OwnFields(action_cls)))

\* ------------------------------------------------------------------------
\* ActionTrigger
\* ------------------------------------------------------------------------
TriggerType == {"reachPoint", "betweenAdjacentPoints", "multipleTiming", "multipleDistance"}

ActionTriggerFields ==
    << Fld("type", "actionTriggerType", "enum", FALSE, {}, {}, {}, TriggerType, TRUE,
           Str("reachPoint")),
       FFloatOpt("param", "actionTriggerParam") >>

\* ActionTrigger(**kw)
NewActionTrigger(kw) ==
    LET validated(vals) == IF \E name \in DOMAIN vals : IsErr(vals[name])
                           THEN Err("ValidationError")
                           ELSE Obj("ActionTrigger", vals)
    IN  validated(FieldValues(ActionTriggerFields, kw))

\* model_dump(by_alias=True, exclude_none=True), then the "wpml:" prefix on every key
PrefixedDump(fs, vals) ==
    LET prefixed(data) == [key \in {Wpml(al) : al \in DOMAIN data} |-> data[key[2]]]
    IN  prefixed(AliasedData(fs, vals))

ActionTrigger_to_dict(t) == Dict(PrefixedDump(ActionTriggerFields, t.c))

\* TriggerType(value)
ToTriggerType(value) ==
    IF value.k = "str" /\ value.s \in TriggerType THEN value ELSE Err("ValueError")

\* ActionTrigger.from_dict(data); data is None or a mapping
ActionTrigger_from_dict(data) ==
    LET d == IF data = None THEN EmptyDict ELSE data
        trigger_type == ToTriggerType(Get(d.c, Wpml("actionTriggerType"), Str("reachPoint")))
        param == Get(d.c, Wpml("actionTriggerParam"), None)
    IN  CASE d.k # "dict" -> Err("AttributeError")
          [] IsErr(trigger_type) -> trigger_type
          [] OTHER -> NewActionTrigger([x \in {"type", "param"} |->
                          IF x = "type" THEN trigger_type ELSE param])

\* ------------------------------------------------------------------------
\* ActionGroup
\* ------------------------------------------------------------------------
\* the scalar fields of ActionGroup; actions and trigger are handled apart
ActionGroupFields ==
    << Fld("group_id", "actionGroupId", "int", FALSE, {0}, {}, {}, {}, FALSE, Num(0)),
       Fld("start_waypoint_id", "actionGroupStartIndex", "int", FALSE, {}, {}, {}, {},
           FALSE, None),
       Fld("end_waypoint_id", "actionGroupEndIndex", "int", FALSE, {}, {}, {}, {},
           FALSE, None),
       FStr("execution_mode", "actionGroupMode", "sequence") >>

\* a keyword dict as the keywords of a constructor: a key is a keyword name as it is
KeywordsOf(d) ==
    [name \in {key[1] : key \in {k1 \in DOMAIN d : Len(k1) = 1}} |-> d[<<name>>]]

\* pydantic validation of actions: List[Action]
ValidateActions(v) ==
    IF v.k = "list" /\ \A i \in 1..Len(v.c) : v.c[i].k = "obj" /\ "action_id" \in DOMAIN v.c[i].c
    THEN v ELSE Err("ValidationError")

\* pydantic validation of trigger: ActionTrigger (an instance, or a mapping of keywords)
ValidateTrigger(v) ==
    CASE v.k = "obj" /\ v.s = "ActionTrigger" -> v
      [] v.k = "dict" -> NewActionTrigger(KeywordsOf(v.c))
      [] OTHER -> Err("ValidationError")

\* validate_start_end with the end index compared with group_id
validate_start_end_vs_group(vals) ==
    LET start == IF vals["start_waypoint_id"] = None THEN vals["group_id"]
                 ELSE vals["start_waypoint_id"]
        end == IF vals["end_waypoint_id"] = None THEN start ELSE vals["end_waypoint_id"]
    IN  IF start.n < vals["group_id"].n \/ end.n < vals["group_id"].n
        THEN Err("ValidationError")
        ELSE Obj("ActionGroup", [vals EXCEPT !["start_waypoint_id"] = start,
                                             !["end_waypoint_id"] = end])

\* ActionGroup.validate_start_end (model validator, mode "after")
validate_start_end(vals) ==
    LET start == IF vals["start_waypoint_id"] = None THEN vals["group_id"]
                 ELSE vals["start_waypoint_id"]
        end == IF vals["end_waypoint_id"] = None THEN start ELSE vals["end_waypoint_id"]
    IN  CASE start.n < vals["group_id"].n -> Err("ValidationError")
          [] end.n < start.n -> Err("ValidationError")
          [] OTHER -> Obj("ActionGroup", [vals EXCEPT !["start_waypoint_id"] = start,
                                                    !["end_waypoint_id"] = end])

\* ActionGroup(**kw)
NewActionGroup(kw) ==
    LET fields(scalars) ==
            [name \in DOMAIN scalars \cup {"actions", "trigger"} |->
                CASE name = "actions" ->
                       IF name \in DOMAIN kw THEN ValidateActions(kw[name])
                       ELSE List(<< >>)
                  [] name = "trigger" ->
                       IF name \in DOMAIN kw THEN ValidateTrigger(kw[name])
                       ELSE NewActionTrigger(<< >>)
                  [] OTHER -> scalars[name]]
        validated(vals) == IF \E name \in DOMAIN vals : IsErr(vals[name])
                           THEN Err("ValidationError")
                           ELSE validate_start_end(vals)
    IN  validated(fields(FieldValues(ActionGroupFields, kw)))

ActionGroup_to_dict_nonempty(g) ==
    LET actions_dict == List([i \in 1..Len(g.c["actions"].c) |->
                                 Action_to_dict(g.c["actions"].c[i])])
        trigger_dict == ActionTrigger_to_dict(g.c["trigger"])
        present == IF Len(g.c["actions"].c) = 0 THEN {} ELSE {Wpml("action")}
        filled(data) ==
            [key \in DOMAIN data \cup present \cup {Wpml("actionTrigger")} |->
                CASE key = Wpml("action") -> actions_dict
                  [] key = Wpml("actionTrigger") -> trigger_dict
                  [] OTHER -> data[key]]
    IN  Dict(filled(PrefixedDump(ActionGroupFields, g.c)))
ActionGroup_to_dict(g) ==
    LET actions_dict == List([i \in 1..Len(g.c["actions"].c) |->
                                 Action_to_dict(g.c["actions"].c[i])])
        trigger_dict == ActionTrigger_to_dict(g.c["trigger"])
        filled(data) ==
            [key \in DOMAIN data \cup {Wpml("action"), Wpml("actionTrigger")} |->
                CASE key = Wpml("action") -> actions_dict
                  [] key = Wpml("actionTrigger") -> trigger_dict
                  [] OTHER -> data[key]]
    IN  Dict(filled(PrefixedDump(ActionGroupFields, g.c)))

\* what the computation of one of the values of a mapping raised, None if none did
Raised(m) ==
    IF \E key \in DOMAIN m : IsErr(m[key])
    THEN m[CHOOSE key \in DOMAIN m : IsErr(m[key])]
    ELSE None

\* a list comprehension: the list of the items, or what the first failing item raised
ListOrRaised(items) ==
    IF \E i \in 1..Len(items) : IsErr(items[i])
    THEN items[CHOOSE i \in 1..Len(items) :
                  IsErr(items[i]) /\ \A j \in 1..(i - 1) : ~IsErr(items[j])]
    ELSE List(items)

\* [Action.from_dict(action) for action in value]; iterating a mapping yields
\* its keys, and a key (a str) has no .get
ActionsFromList(value) ==
    CASE value.k = "list" ->
           ListOrRaised([i \in 1..Len(value.c) |->
                            IF value.c[i].k = "dict"
                            THEN Action_from_dict("Action", value.c[i])
                            ELSE Err("AttributeError")])
      [] value.k = "dict" ->
           IF DOMAIN value.c = {} THEN List(<< >>) ELSE Err("AttributeError")
      [] value.k \in {"str", "numeral"} -> Err("AttributeError")
      [] OTHER -> Err("TypeError")

\* the field a cleaned key stands for: alias_to_field.get(clean_key, clean_key)
FieldOfKey(fs, clean_key) ==
    IF Len(clean_key) = 1 /\ clean_key[1] \in FieldAliases(fs)
    THEN Bare(FieldAliased(fs, clean_key[1]).name)
    ELSE clean_key

\* ActionGroup.from_dict(data)
ActionGroup_from_dict(data) ==
    LET fs == ActionGroupFields \o
              << Fld("actions", "action", "list", FALSE, {}, {}, {}, {}, FALSE, None),
                 Fld("trigger", "actionTrigger", "model", FALSE, {}, {}, {}, {}, FALSE, None) >>
        field_name(key) == FieldOfKey(fs, StripPrefix(key))
        clean_data ==
            [fkey \in {field_name(key) : key \in DOMAIN data.c} |->
                LET value == data.c[CHOOSE key \in DOMAIN data.c : field_name(key) = fkey]
                IN  CASE fkey = Bare("actions") /\ Truthy(value) ->
                           IF value.k \in {"list", "dict"}
                           THEN ActionsFromList(IF value.k = "list" THEN value
                                                ELSE List(<<value>>))
                           ELSE Err("AttributeError")
                      [] fkey = Bare("trigger") /\ Truthy(value) ->
                           ActionTrigger_from_dict(value)
                      [] OTHER -> value]
        cls(kw) == IF Raised(kw) # None THEN Raised(kw)
                   ELSE NewActionGroup(KeywordsOf(kw))
    IN  IF data.k # "dict" THEN Err("AttributeError") ELSE cls(clean_data)

\* ------------------------------------------------------------------------
\* mission_config.py: DroneInfo, PayloadInfo, MissionConfig
\* ------------------------------------------------------------------------
FlyToWaylineMode == {"safely", "pointToPoint"}
FinishAction == {"goHome", "autoLand", "gotoFirstWaypoint", "noAction"}
RCLostAction == {"goContinue", "handover", "goBack", "landing"}

\* DroneModel in the order of its members, which is the order of MODEL_TO_VAL
DroneModel == <<"M350", "M300", "M30", "M30T", "M3E", "M3T", "M3M", "M3D", "M3TD">>

\* MODEL_TO_VAL: the enum value and the sub enum value of each drone model
MODEL_TO_VAL ==
    [model \in {DroneModel[i] : i \in 1..Len(DroneModel)} |->
        CASE model = "M350" -> <<Num(89), None>>
          [] model = "M300" -> <<Num(60), None>>
          [] model = "M30" -> <<Num(67), Num(0)>>
          [] model = "M30T" -> <<Num(67), Num(1)>>
          [] model = "M3E" -> <<Num(77), Num(0)>>
          [] model = "M3T" -> <<Num(77), Num(1)>>
          [] model = "M3M" -> <<Num(77), Num(2)>>
          [] model = "M3D" -> <<Num(91), Num(0)>>
          [] model = "M3TD" -> <<Num(91), Num(1)>>]

\* the values of PayloadModel, in tenths
PayloadModel ==
    {Dec(v, 0) : v \in {42, 43, 50, 52, 53, 61, 66, 67, 68, 80, 81, 82, 83, 65534}}
PayloadModel_M3M == Num(68)

DroneInfoFields ==
    << Fld("drone_model", "drone_model", "enum", FALSE, {}, {}, {},
           {DroneModel[i] : i \in 1..Len(DroneModel)}, TRUE, Str("M350")) >>

\* DroneInfo(**kw)
NewDroneInfo(kw) ==
    LET validated(vals) == IF \E name \in DOMAIN vals : IsErr(vals[name])
                           THEN Err("ValidationError")
                           ELSE Obj("DroneInfo", vals)
    IN  validated(FieldValues(DroneInfoFields, kw))

\* DroneInfo.to_dict: the two computed fields, a None sub enum value left out
DroneInfo_to_dict(o) ==
    LET val == MODEL_TO_VAL[o.c["drone_model"].s]
        keys == {Wpml("droneEnumValue")} \cup
                (IF val[2] = None THEN {} ELSE {Wpml("droneSubEnumValue")})
    IN  Dict([key \in keys |-> IF key = Wpml("droneEnumValue") THEN val[1] ELSE val[2]])

\* a or b
Or(a, b) == IF Truthy(a) THEN a ELSE b

\* DroneInfo.from_dict(data)
DroneInfo_from_dict(data) ==
    IF data.k # "dict" THEN Err("AttributeError")
    ELSE
    LET given == Or(Get(data.c, Wpml("droneEnumValue"), None),
                    Get(data.c, Bare("droneEnumValue"), None))
        given_sub == Or(Get(data.c, Wpml("droneSubEnumValue"), None),
                        Get(data.c, Bare("droneSubEnumValue"), None))
        drone_enum_value == PyInt(given)
        drone_sub_enum_value == IF given_sub = None THEN None ELSE PyInt(given_sub)
        matches == {i \in 1..Len(DroneModel) :
                       /\ MODEL_TO_VAL[DroneModel[i]][1] = drone_enum_value
                       /\ \/ MODEL_TO_VAL[DroneModel[i]][2] = None
                          \/ MODEL_TO_VAL[DroneModel[i]][2] = drone_sub_enum_value}
    IN  CASE given = None -> Err("ValueError")
          [] IsErr(drone_enum_value) -> drone_enum_value
          [] IsErr(drone_sub_enum_value) -> drone_sub_enum_value
          [] matches = {} -> Err("ValueError")
          [] OTHER ->
               NewDroneInfo(Kw(<< <<"drone_model",
                   Str(DroneModel[CHOOSE i \in matches : \A j \in matches : i <= j])>> >>))

PayloadInfoFields ==
    << Fld("payload_model", "payloadEnumValue", "intenum", FALSE, {}, {}, {},
           PayloadModel, TRUE, PayloadModel_M3M),
       Fld("position", "payloadPositionIndex", "int", FALSE, {}, {}, {}, {}, FALSE, Num(0)) >>

\* PayloadInfo(**kw)
NewPayloadInfo(kw) ==
    LET validated(vals) == IF \E name \in DOMAIN vals : IsErr(vals[name])
                           THEN Err("ValidationError")
                           ELSE Obj("PayloadInfo", vals)
    IN  validated(FieldValues(PayloadInfoFields, kw))

PayloadInfo_to_dict(o) == Dict(PrefixedDump(PayloadInfoFields, o.c))

\* PayloadModel(int(value)), with the fallback of PayloadInfo.from_dict
ToPayloadModel(value) ==
    LET n == PyInt(value)
    IN  IF IsErr(n) \/ n.n \notin PayloadModel THEN PayloadModel_M3M ELSE n

\* PayloadInfo.from_dict(data)
PayloadInfo_from_dict(data) ==
    IF data.k # "dict" THEN Err("AttributeError")
    ELSE
    LET clean_data == StripKeys(data.c)
        fs == PayloadInfoFields
        params == [name \in {fs[i].name : i \in {j \in 1..Len(fs) :
                                                   Bare(fs[j].alias) \in DOMAIN clean_data}} |->
                      IF name = "payload_model"
                      THEN ToPayloadModel(clean_data[Bare(FieldNamed(fs, name).alias)])
                      ELSE clean_data[Bare(FieldNamed(fs, name).alias)]]
    IN  NewPayloadInfo(params)

\* the scalar fields of MissionConfig; drone_info and payload_info are handled apart
MissionConfigFields ==
    << Fld("fly_to_wayline_mode", "flyToWaylineMode", "enum", FALSE, {}, {}, {},
           FlyToWaylineMode, TRUE, Str("safely")),
       Fld("finish_action", "finishAction", "enum", FALSE, {}, {}, {},
           FinishAction, TRUE, Str("goHome")),
       Fld("rclost_action", "rclost_action", "enum", FALSE, {}, {}, {},
           RCLostAction, TRUE, Str("goContinue")),
       Fld("take_off_height", "takeOffSecurityHeight", "float", FALSE,
           {Dec(1, 2)}, {}, {Dec(1500, 0)}, {}, FALSE, Tenths(Dec(1, 2))),
       Fld("ref_take_off", "refTakeOffPoint", "nonetype", TRUE, {}, {}, {}, {}, FALSE, None),
       Fld("ref_take_off_altitude", "takeOffRefPointAGLHeight", "nonetype", TRUE,
           {}, {}, {}, {}, FALSE, None) >>

MissionConfigModels ==
    << Fld("drone_info", "droneInfo", "model", TRUE, {}, {}, {}, {}, FALSE, None),
       Fld("payload_info", "payloadInfo", "model", TRUE, {}, {}, {}, {}, FALSE, None) >>

\* pydantic validation of a field of type Optional[DroneInfo]
ValidateDroneInfo(v) ==
    CASE v.k = "none" -> None
      [] v.k = "obj" /\ v.s = "DroneInfo" -> v
      [] v.k = "dict" -> NewDroneInfo(KeywordsOf(v.c))
      [] OTHER -> Err("ValidationError")

\* pydantic validation of a field of type Optional[PayloadInfo]
ValidatePayloadInfo(v) ==
    CASE v.k = "none" -> None
      [] v.k = "obj" /\ v.s = "PayloadInfo" -> v
      [] v.k = "dict" -> NewPayloadInfo(KeywordsOf(v.c))
      [] OTHER -> Err("ValidationError")

\* MissionConfig(**kw)
NewMissionConfig(kw) ==
    LET fields(scalars) ==
            [name \in DOMAIN scalars \cup {"drone_info", "payload_info"} |->
                CASE name = "drone_info" ->
                       IF name \in DOMAIN kw THEN ValidateDroneInfo(kw[name]) ELSE None
                  [] name = "payload_info" ->
                       IF name \in DOMAIN kw THEN ValidatePayloadInfo(kw[name]) ELSE None
                  [] OTHER -> scalars[name]]
        validated(vals) == IF \E name \in DOMAIN vals : IsErr(vals[name])
                           THEN Err("ValidationError")
                           ELSE Obj("MissionConfig", vals)
    IN  validated(fields(FieldValues(MissionConfigFields, kw)))

\* the computed fields exit_on_rc_lost and execute_rc_lost_action
exit_on_rc_lost(o) ==
    IF o.c["rclost_action"] = Str("goContinue") THEN Str("goContinue")
    ELSE Str("executeLostAction")
execute_rc_lost_action_always(o) == o.c["rclost_action"]
execute_rc_lost_action(o) ==
    IF o.c["rclost_action"] = Str("goContinue") THEN None ELSE o.c["rclost_action"]

\* MissionConfig.to_dict
MissionConfig_to_dict(o) ==
    LET aliases(data) ==
            (DOMAIN data \ {"rclost_action"}) \cup {"exitOnRCLost"} \cup
            (IF execute_rc_lost_action(o) = None THEN {} ELSE {"executeRCLostAction"}) \cup
            (IF o.c["drone_info"] = None THEN {} ELSE {"droneInfo"}) \cup
            (IF o.c["payload_info"] = None THEN {} ELSE {"payloadInfo"})
        filled(data) ==
            [key \in {Wpml(al) : al \in aliases(data)} |->
                CASE key[2] = "exitOnRCLost" -> exit_on_rc_lost(o)
                  [] key[2] = "executeRCLostAction" -> execute_rc_lost_action(o)
                  [] key[2] = "droneInfo" -> DroneInfo_to_dict(o.c["drone_info"])
                  [] key[2] = "payloadInfo" -> PayloadInfo_to_dict(o.c["payload_info"])
                  [] OTHER -> data[key[2]]]
    IN  Dict(filled(AliasedData(MissionConfigFields, o.c)))

\* the RC lost action that MissionConfig.from_dict reads from the two computed
\* keys; None where it sets nothing
RCLostFromKeys(data) ==
    LET exit == Get(data, Wpml("exitOnRCLost"), None)
        execute == Get(data, Wpml("executeRCLostAction"), None)
    IN  CASE exit = None -> None
          [] exit = Str("goContinue") -> Str("goContinue")
          [] exit = Str("executeLostAction") /\ Truthy(execute) ->
               IF execute \in {Str("handover"), Str("goBack"), Str("landing")}
               THEN execute ELSE Str("goContinue")
          [] OTHER -> None

\* MissionConfig.from_dict(data)
MissionConfig_from_dict(data) ==
    IF data.k # "dict" THEN Err("AttributeError")
    ELSE
    LET fs == MissionConfigFields \o MissionConfigModels
        looped == {key \in DOMAIN data.c :
                      StripPrefix(key) \notin {Bare("exitOnRCLost"), Bare("executeRCLostAction")}}
        field_name(key) == FieldOfKey(fs, StripPrefix(key))
        rclost == RCLostFromKeys(data.c)
        names == {field_name(key) : key \in looped} \cup
                 (IF rclost = None THEN {} ELSE {Bare("rclost_action")})
        clean_data ==
            [fkey \in names |->
                IF fkey \notin {field_name(key) : key \in looped} THEN rclost
                ELSE
                LET value == data.c[CHOOSE key \in looped : field_name(key) = fkey]
                IN  CASE fkey = Bare("drone_info") /\ Truthy(value) -> DroneInfo_from_dict(value)
                      [] fkey = Bare("payload_info") /\ Truthy(value) ->
                           PayloadInfo_from_dict(value)
                      [] OTHER -> value]
        cls(kw) == IF Raised(kw) # None THEN Raised(kw)
                   ELSE NewMissionConfig(KeywordsOf(kw))
    IN  cls(clean_data)

\* ------------------------------------------------------------------------
\* coordinate_system_param.py, heading_param.py, turn_param.py
\* ------------------------------------------------------------------------
CoordinateModeEnum == {"WGS84"}
HeightModeEnum == {"EGM96", "relativeToStartPoint", "aboveGroundLevel", "realTimeFollowSurface"}
PositionTypeEnum == {"GPS", "RTKBaseStation", "QianXun", "Custom"}

CoordinateSystemParamFields ==
    << Fld("coordinate_system", "coordinateMode", "enum", FALSE, {}, {}, {},
           CoordinateModeEnum, TRUE, Str("WGS84")),
       Fld("height_mode", "heightMode", "enum", FALSE, {}, {}, {},
           HeightModeEnum, TRUE, Str("relativeToStartPoint")),
       Fld("position_type", "positioningType", "enum", FALSE, {}, {}, {},
           PositionTypeEnum, TRUE, Str("GPS")) >>

\* cls(**kw) of a class with scalar fields only and no model validator
NewPlain(cls, fs, kw) ==
    LET validated(vals) == IF \E name \in DOMAIN vals : IsErr(vals[name])
                           THEN Err("ValidationError")
                           ELSE Obj(cls, vals)
    IN  validated(FieldValues(fs, kw))

NewCoordinateSystemParam(kw) ==
    NewPlain("CoordinateSystemParam", CoordinateSystemParamFields, kw)

CoordinateSystemParam_to_dict(o) == Dict(PrefixedDump(CoordinateSystemParamFields, o.c))

\* clean_data[alias_to_field.get(clean_key, clean_key)] = value, for every key
CleanData(fs, d) ==
    [fkey \in {FieldOfKey(fs, StripPrefix(key)) : key \in DOMAIN d} |->
        d[CHOOSE key \in DOMAIN d : FieldOfKey(fs, StripPrefix(key)) = fkey]]

\* CoordinateSystemParam.from_dict(data)
CoordinateSystemParam_from_dict(data) ==
    IF data.k # "dict" THEN Err("AttributeError")
    ELSE NewCoordinateSystemParam(
             KeywordsOf(CleanData(CoordinateSystemParamFields, data.c)))

WaypointHeadingMode ==
    {"followWayline", "manually", "fixed", "smoothTransition", "towardPOI"}
WaypointHeadingPathMode == {"clockwise", "counterClockwise", "followBadArc"}

\* a required field has no default
Missing == Err("missing")

WaypointPoiPointFields ==
    << Fld("latitude", "latitude", "float", FALSE, {Dec(-90, 0)}, {}, {Dec(90, 0)}, {},
           FALSE, Missing),
       Fld("longitude", "longitude", "float", FALSE, {Dec(-180, 0)}, {}, {Dec(180, 0)}, {},
           FALSE, Missing),
       Fld("altitude", "altitude", "float", FALSE, {}, {}, {}, {}, FALSE, Num(0)) >>

NewWaypointPoiPoint(kw) == NewPlain("WaypointPoiPoint", WaypointPoiPointFields, kw)

\* str(x) of a float
FloatText(v) == Numeral(v.n)

\* WaypointPoiPoint.to_string
WaypointPoiPoint_to_string(o) ==
    Joined(<<FloatText(o.c["latitude"]), FloatText(o.c["longitude"]),
             FloatText(o.c["altitude"])>>)

\* text.split(','): the parts of a joined text, the text itself otherwise
Split(text) == IF text.k = "joined" THEN text.c ELSE <<text>>

\* WaypointPoiPoint.from_string(poi_string)
WaypointPoiPoint_from_string_lonlat(poi_string) ==
    LET parts == Split(poi_string)
    IN  IF Len(parts) # 3 \/ \E i \in 1..3 : IsErr(PyFloat(parts[i]))
        THEN Err("ValueError")
        ELSE NewWaypointPoiPoint(Kw(<< <<"latitude", PyFloat(parts[2])>>,
                                       <<"longitude", PyFloat(parts[1])>>,
                                       <<"altitude", PyFloat(parts[3])>> >>))
WaypointPoiPoint_from_string(poi_string) ==
    LET parts == Split(poi_string)
    IN  IF Len(parts) # 3 \/ \E i \in 1..3 : IsErr(PyFloat(parts[i]))
        THEN Err("ValueError")
        ELSE NewWaypointPoiPoint(Kw(<< <<"latitude", PyFloat(parts[1])>>,
                                       <<"longitude", PyFloat(parts[2])>>,
                                       <<"altitude", PyFloat(parts[3])>> >>))

\* the scalar fields of WaypointHeadingParam; waypoint_poi_point is handled apart
WaypointHeadingParamFields ==
    << Fld("waypoint_heading_mode", "waypointHeadingMode", "enum", FALSE, {}, {}, {},
           WaypointHeadingMode, TRUE, Str("followWayline")),
       Fld("waypoint_heading_angle", "waypointHeadingAngle", "float", TRUE,
           {Dec(-180, 0)}, {}, {Dec(180, 0)}, {}, FALSE, None),
       Fld("waypoint_heading_path_mode", "waypointHeadingPathMode", "enum", FALSE,
           {}, {}, {}, WaypointHeadingPathMode, TRUE, Str("followBadArc")) >>

\* pydantic validation of a field of type Optional[WaypointPoiPoint]
ValidatePoiPoint(v) ==
    CASE v.k = "none" -> None
      [] v.k = "obj" /\ v.s = "WaypointPoiPoint" -> v
      [] v.k = "dict" -> NewWaypointPoiPoint(KeywordsOf(v.c))
      [] OTHER -> Err("ValidationError")

\* WaypointHeadingParam(**kw) with the towardPOI requirement left out of
\* validate_mode_requirements
NewWaypointHeadingParam_nopoi(kw) ==
    LET fields(scalars) ==
            [name \in DOMAIN scalars \cup {"waypoint_poi_point"} |->
                IF name = "waypoint_poi_point"
                THEN IF name \in DOMAIN kw THEN ValidatePoiPoint(kw[name]) ELSE None
                ELSE scalars[name]]
        validated(vals) ==
            CASE \E name \in DOMAIN vals : IsErr(vals[name]) -> Err("ValidationError")
              [] /\ vals["waypoint_heading_mode"] = Str("smoothTransition")
                 /\ vals["waypoint_heading_angle"] = None -> Err("ValidationError")
              [] OTHER -> Obj("WaypointHeadingParam", vals)
    IN  validated(fields(FieldValues(WaypointHeadingParamFields, kw)))

\* WaypointHeadingParam(**kw), with validate_mode_requirements
NewWaypointHeadingParam(kw) ==
    LET fields(scalars) ==
            [name \in DOMAIN scalars \cup {"waypoint_poi_point"} |->
                IF name = "waypoint_poi_point"
                THEN IF name \in DOMAIN kw THEN ValidatePoiPoint(kw[name]) ELSE None
                ELSE scalars[name]]
        validated(vals) ==
            CASE \E name \in DOMAIN vals : IsErr(vals[name]) -> Err("ValidationError")
              [] /\ vals["waypoint_heading_mode"] = Str("smoothTransition")
                 /\ vals["waypoint_heading_angle"] = None -> Err("ValidationError")
              [] /\ vals["waypoint_heading_mode"] = Str("towardPOI")
                 /\ vals["waypoint_poi_point"] = None -> Err("ValidationError")
              [] OTHER -> Obj("WaypointHeadingParam", vals)
    IN  validated(fields(FieldValues(WaypointHeadingParamFields, kw)))

\* WaypointHeadingParam.to_dict
WaypointHeadingParam_to_dict(o) ==
    LET keys == {Wpml("waypointHeadingMode"), Wpml("waypointHeadingPathMode")} \cup
                (IF o.c["waypoint_heading_angle"] = None THEN {}
                 ELSE {Wpml("waypointHeadingAngle")}) \cup
                (IF o.c["waypoint_poi_point"] = None THEN {} ELSE {Wpml("waypointPoiPoint")})
    IN  Dict([key \in keys |->
                CASE key[2] = "waypointHeadingMode" -> o.c["waypoint_heading_mode"]
                  [] key[2] = "waypointHeadingPathMode" -> o.c["waypoint_heading_path_mode"]
                  [] key[2] = "waypointHeadingAngle" -> o.c["waypoint_heading_angle"]
                  [] OTHER -> WaypointPoiPoint_to_string(o.c["waypoint_poi_point"])])

\* WaypointHeadingParam.from_dict(data): the four known keys, any other key dropped
WaypointHeadingParam_from_dict(data) ==
    IF data.k # "dict" THEN Err("AttributeError")
    ELSE
    LET fs == WaypointHeadingParamFields \o
              << Fld("waypoint_poi_point", "waypointPoiPoint", "model", TRUE,
                     {}, {}, {}, {}, FALSE, None) >>
        known == {key \in DOMAIN data.c :
                     /\ Len(StripPrefix(key)) = 1
                     /\ StripPrefix(key)[1] \in FieldAliases(fs)}
        clean_data ==
            [fkey \in {FieldOfKey(fs, StripPrefix(key)) : key \in known} |->
                LET value == data.c[CHOOSE key \in known :
                                       FieldOfKey(fs, StripPrefix(key)) = fkey]
                IN  CASE fkey = Bare("waypoint_heading_angle") -> PyFloat(value)
                      [] fkey = Bare("waypoint_poi_point") ->
                           WaypointPoiPoint_from_string(value)
                      [] OTHER -> value]
        cls(kw) == IF Raised(kw) # None THEN Raised(kw)
                   ELSE NewWaypointHeadingParam(KeywordsOf(kw))
    IN  cls(clean_data)

WaypointTurnMode ==
    {"coordinateTurn", "toPointAndStopWithDiscontinuityCurvature",
     "toPointAndPassWithContinuityCurvature", "toPointAndStopWithContinuityCurvature"}

WaypointTurnParamFields ==
    << Fld("waypoint_turn_mode", "waypointTurnMode", "enum", FALSE, {}, {}, {},
           WaypointTurnMode, TRUE, Missing),
       Fld("waypoint_turn_damping_dist", "waypointTurnDampingDist", "float", TRUE,
           {}, {0}, {}, {}, FALSE, None) >>

\* WaypointTurnParam(**kw) with coordinateTurn taken out of modes_requiring_damping
NewWaypointTurnParam_nomode(kw) ==
    NewPlain("WaypointTurnParam", WaypointTurnParamFields, kw)

\* WaypointTurnParam(**kw), with validate_mode_requirements
NewWaypointTurnParam(kw) ==
    LET validated(o) ==
            CASE IsErr(o) -> o
              [] /\ o.c["waypoint_turn_mode"] = Str("coordinateTurn")
                 /\ o.c["waypoint_turn_damping_dist"] = None -> Err("ValidationError")
              [] OTHER -> o
    IN  validated(NewPlain("WaypointTurnParam", WaypointTurnParamFields, kw))

\* WaypointTurnParam.to_dict
WaypointTurnParam_to_dict(o) == Dict(PrefixedDump(WaypointTurnParamFields, o.c))

\* WaypointTurnParam.from_dict(data)
WaypointTurnParam_from_dict(data) ==
    IF data.k # "dict" THEN Err("AttributeError")
    ELSE
    LET converted(raw) ==
            [fkey \in DOMAIN raw |->
                IF fkey = Bare("waypoint_turn_damping_dist") /\ raw[fkey] # None
                THEN PyFloat(raw[fkey]) ELSE raw[fkey]]
        clean_data == converted(CleanData(WaypointTurnParamFields, data.c))
        cls(kw) == IF Raised(kw) # None THEN Raised(kw)
                   ELSE NewWaypointTurnParam(KeywordsOf(kw))
    IN  cls(clean_data)

\* ------------------------------------------------------------------------
\* waypoint.py: Point, Waypoint
\* ------------------------------------------------------------------------
PointFields ==
    << Fld("latitude", "latitude", "float", FALSE, {Dec(-90, 0)}, {}, {Dec(90, 0)}, {},
           FALSE, Missing),
       Fld("longitude", "longitude", "float", FALSE, {Dec(-180, 0)}, {}, {Dec(180, 0)}, {},
           FALSE, Missing) >>

\* Point(**kw)
NewPoint(kw) == NewPlain("Point", PointFields, kw)

\* Point.to_dict of the point of the given coordinates
Point_to_dict(latitude, longitude) ==
    Dict([key \in {Bare("coordinates")} |->
             Joined(<<FloatText(longitude), FloatText(latitude)>>)])

\* Point.from_dict(data): the keys 'latitude' and 'longitude', 0.0 for an absent one
Point_from_dict(data) ==
    IF data.k # "dict" THEN Err("AttributeError")
    ELSE NewPoint(Kw(<< <<"latitude", Get(data.c, Bare("latitude"), Num(0))>>,
                        <<"longitude", Get(data.c, Bare("longitude"), Num(0))>> >>))

FFlag(name, alias) == FInt(name, alias, 0, 1, 1)

\* the scalar fields of Waypoint; heading_param, turn_param and action_group
\* are handled apart
WaypointFields ==
    << Fld("latitude", "latitude", "float", FALSE, {Dec(-90, 0)}, {}, {Dec(90, 0)}, {},
           FALSE, Missing),
       Fld("longitude", "longitude", "float", FALSE, {Dec(-180, 0)}, {}, {Dec(180, 0)}, {},
           FALSE, Missing),
       FInt("waypoint_id", "index", 0, 65535, 0),
       FFloatOpt("height", "height"),
       FFloatOpt("ellipsoid_height", "ellipsoidHeight"),
       FFlag("use_global_height", "useGlobalHeight"),
       FFloatOpt("speed", "waypointSpeed"),
       FFlag("use_global_speed", "useGlobalSpeed"),
       FFlag("use_global_heading_param", "useGlobalHeadingParam"),
       FFlag("use_global_turn_param", "useGlobalTurnParam"),
       FFlag("use_straight_line", "useStraightLine"),
       FFloatOpt("gimbal_pitch_angle", "gimbalPitchAngle") >>

WaypointModels ==
    << Fld("heading_param", "waypointHeadingParam", "model", TRUE, {}, {}, {}, {}, FALSE, None),
       Fld("turn_param", "waypointTurnParam", "model", TRUE, {}, {}, {}, {}, FALSE, None),
       Fld("action_group", "actionGroup", "model", TRUE, {}, {}, {}, {}, FALSE, None) >>

\* pydantic validation of heading_param, turn_param and action_group: None,
\* an instance, or a mapping of keywords
ValidateWaypointModel(name, v) ==
    CASE v.k = "none" -> None
      [] v.k = "obj" ->
           IF v.s = (CASE name = "heading_param" -> "WaypointHeadingParam"
                       [] name = "turn_param" -> "WaypointTurnParam"
                       [] OTHER -> "ActionGroup")
           THEN v ELSE Err("ValidationError")
      [] v.k = "dict" ->
           CASE name = "heading_param" -> NewWaypointHeadingParam(KeywordsOf(v.c))
             [] name = "turn_param" -> NewWaypointTurnParam(KeywordsOf(v.c))
             [] OTHER -> NewActionGroup(KeywordsOf(v.c))
      [] OTHER -> Err("ValidationError")

\* Waypoint(**kw)
NewWaypoint(kw) ==
    LET fields(scalars) ==
            [name \in DOMAIN scalars \cup FieldNames(WaypointModels) |->
                IF name \in DOMAIN scalars THEN scalars[name]
                ELSE IF name \in DOMAIN kw THEN ValidateWaypointModel(name, kw[name])
                ELSE None]
        validated(vals) == IF \E name \in DOMAIN vals : IsErr(vals[name])
                           THEN Err("ValidationError")
                           ELSE Obj("Waypoint", vals)
    IN  validated(fields(FieldValues(WaypointFields, kw)))

\* Waypoint.to_dict
Waypoint_to_dict(o) ==
    LET data == AliasedData(WaypointFields, o.c)
        scalar == {Wpml(al) : al \in DOMAIN data \ {"latitude", "longitude"}}
        models == {Wpml(WaypointModels[i].alias) :
                      i \in {j \in 1..Len(WaypointModels) : o.c[WaypointModels[j].name] # None}}
    IN  Dict([key \in scalar \cup models \cup {Bare("Point")} |->
                CASE key = Bare("Point") -> Point_to_dict(o.c["latitude"], o.c["longitude"])
                  [] key = Wpml("actionGroup") -> ActionGroup_to_dict(o.c["action_group"])
                  [] key = Wpml("waypointHeadingParam") ->
                       WaypointHeadingParam_to_dict(o.c["heading_param"])
                  [] key = Wpml("waypointTurnParam") ->
                       WaypointTurnParam_to_dict(o.c["turn_param"])
                  [] OTHER -> data[key[2]]])

\* data['Point']['coordinates'].split(','), then float() of the first two parts:
\* <<longitude, latitude>>, or the error raised on the way
PointCoordinates(point) ==
    CASE point.k \notin {"dict"} -> Err("TypeError")
      [] Bare("coordinates") \notin DOMAIN point.c -> Err("KeyError")
      [] point.c[Bare("coordinates")].k \notin {"joined", "str", "numeral"} ->
           Err("AttributeError")
      [] OTHER ->
           LET coordinates == Split(point.c[Bare("coordinates")])
           IN  CASE IsErr(PyFloat(coordinates[1])) -> Err("ValueError")
                 [] Len(coordinates) < 2 -> Err("IndexError")
                 [] IsErr(PyFloat(coordinates[2])) -> Err("ValueError")
                 [] OTHER -> List(<<PyFloat(coordinates[1]), PyFloat(coordinates[2])>>)

\* Waypoint.from_dict(data)
Waypoint_from_dict(data) ==
    IF data.k # "dict" THEN Err("AttributeError")
    ELSE
    LET fs == WaypointFields \o WaypointModels
        looped == DOMAIN data.c \ {Bare("Point")}
        field_name(key) == FieldOfKey(fs, StripPrefix(key))
        point == IF Bare("Point") \in DOMAIN data.c
                 THEN PointCoordinates(data.c[Bare("Point")]) ELSE None
        from_point == IF point.k = "list" THEN {Bare("longitude"), Bare("latitude")} ELSE {}
        clean_data ==
            [fkey \in {field_name(key) : key \in looped} \cup from_point |->
                IF fkey \notin {field_name(key) : key \in looped}
                THEN IF fkey = Bare("longitude") THEN point.c[1] ELSE point.c[2]
                ELSE
                LET value == data.c[CHOOSE key \in looped : field_name(key) = fkey]
                IN  CASE fkey = Bare("action_group") /\ Truthy(value) ->
                           ActionGroup_from_dict(value)
                      [] fkey = Bare("heading_param") /\ Truthy(value) ->
                           WaypointHeadingParam_from_dict(value)
                      [] fkey = Bare("turn_param") /\ Truthy(value) ->
                           WaypointTurnParam_from_dict(value)
                      [] OTHER -> value]
        cls(kw) == IF Raised(kw) # None THEN Raised(kw)
                   ELSE NewWaypoint(KeywordsOf(kw))
    IN  IF IsErr(point) THEN point ELSE cls(clean_data)

\* ------------------------------------------------------------------------
\* kml.py: KML
\* ------------------------------------------------------------------------
ATTR_NOT_IN_FOLDER_noconfig ==
    {Wpml("author"), Wpml("createTime"), Wpml("updateTime")}
ATTR_NOT_IN_FOLDER ==
    {Wpml("author"), Wpml("createTime"), Wpml("updateTime"), Wpml("missionConfig")}

GimbalPitchMode == {"manual", "usePointSetting"}

\* int(datetime.now().timestamp()*1e3) at the time the module was imported
ImportTime == Num(1000)

\* the scalar fields of KML
KMLFields ==
    << FStr("author", "author", "Zey"),
       Fld("create_time", "createTime", "int", FALSE, {}, {}, {}, {}, FALSE, ImportTime),
       Fld("update_time", "updateTime", "int", FALSE, {}, {}, {}, {}, FALSE, ImportTime),
       FOneOf("template_type", "templateType", {"waypoint"}, "waypoint"),
       FInt("template_id", "templateId", 0, 0, 0),
       Fld("global_speed", "autoFlightSpeed", "float", FALSE, {0}, {}, {}, {}, FALSE, Num(1)),
       Fld("global_height", "globalHeight", "float", FALSE, {0}, {}, {}, {}, FALSE, Num(0)),
       Fld("global_turn_mode", "globalWaypointTurnMode", "enum", FALSE, {}, {}, {},
           WaypointTurnMode, TRUE, Str("toPointAndStopWithDiscontinuityCurvature")),
       FInt("global_use_straight_line", "globalUseStraightLine", 0, 1, 1),
       Fld("global_gimbal_pitch_mode", "globalGimbalPitchMode", "enum", FALSE, {}, {}, {},
           GimbalPitchMode, TRUE, Str("manual")) >>

\* the fields of KML whose class has a from_dict, and the waypoint list
KMLModels ==
    << Fld("mission_config", "missionConfig", "model", FALSE, {}, {}, {}, {}, FALSE, None),
       Fld("coordinate_system_param", "waylineCoordinateSysParam", "model", FALSE,
           {}, {}, {}, {}, FALSE, None),
       Fld("global_waypoint_heading_param", "globalWaypointHeadingParam", "model", FALSE,
           {}, {}, {}, {}, FALSE, None) >>
KMLWaypoints ==
    << Fld("waypoints", "Placemark", "list", FALSE, {}, {}, {}, {}, FALSE, None) >>

\* the class of a model field of KML
KMLModelClass(name) ==
    CASE name = "mission_config" -> "MissionConfig"
      [] name = "coordinate_system_param" -> "CoordinateSystemParam"
      [] name = "global_waypoint_heading_param" -> "WaypointHeadingParam"

\* cls(**kw) of the class of a model field of KML
NewKMLModel(name, kw) ==
    CASE name = "mission_config" -> NewMissionConfig(kw)
      [] name = "coordinate_system_param" -> NewCoordinateSystemParam(kw)
      [] name = "global_waypoint_heading_param" -> NewWaypointHeadingParam(kw)

\* pydantic validation of a model field of KML: an instance or a mapping of keywords
ValidateKMLModel(name, v) ==
    CASE v.k = "obj" -> IF v.s = KMLModelClass(name) THEN v ELSE Err("ValidationError")
      [] v.k = "dict" -> NewKMLModel(name, KeywordsOf(v.c))
      [] OTHER -> Err("ValidationError")

\* pydantic validation of waypoints: list[Waypoint]
ValidateWaypoints(v) ==
    IF v.k = "list" /\ \A i \in 1..Len(v.c) : v.c[i].k = "obj" /\ v.c[i].s = "Waypoint"
    THEN v ELSE Err("ValidationError")

\* KML(**kw)
NewKML(kw) ==
    LET fields(scalars) ==
            [name \in DOMAIN scalars \cup FieldNames(KMLModels) \cup {"waypoints"} |->
                CASE name \in DOMAIN scalars -> scalars[name]
                  [] name = "waypoints" ->
                       IF name \in DOMAIN kw THEN ValidateWaypoints(kw[name])
                       ELSE List(<< >>)
                  [] OTHER ->
                       IF name \in DOMAIN kw THEN ValidateKMLModel(name, kw[name])
                       ELSE NewKMLModel(name, << >>)]
        validated(vals) == IF \E name \in DOMAIN vals : IsErr(vals[name])
                           THEN Err("ValidationError")
                           ELSE Obj("KML", vals)
    IN  validated(fields(FieldValues(KMLFields, kw)))

\* the to_dict that the serializer of a model field of KML returns
KMLModel_to_dict(name, o) ==
    CASE name = "mission_config" -> MissionConfig_to_dict(o)
      [] name = "coordinate_system_param" -> CoordinateSystemParam_to_dict(o)
      [] name = "global_waypoint_heading_param" -> WaypointHeadingParam_to_dict(o)

\* KML.to_dict: the dump of every field but waypoints under prefixed keys, the
\* waypoints under 'Placemark', and all but ATTR_NOT_IN_FOLDER moved under 'Folder'
KML_to_dict(o) ==
    LET models == {Wpml(KMLModels[i].alias) : i \in 1..Len(KMLModels)}
        dumped(scalar) ==
            [key \in DOMAIN scalar \cup models \cup {Bare("Placemark")} |->
                CASE key \in DOMAIN scalar -> scalar[key]
                  [] key \in models ->
                       KMLModel_to_dict(FieldAliased(KMLModels, key[2]).name,
                                        o.c[FieldAliased(KMLModels, key[2]).name])
                  [] OTHER -> List([i \in 1..Len(o.c["waypoints"].c) |->
                                       Waypoint_to_dict(o.c["waypoints"].c[i])])]
        folder_data(data) == [key \in DOMAIN data \ ATTR_NOT_IN_FOLDER |-> data[key]]
        foldered(data) ==
            [key \in (DOMAIN data \cap ATTR_NOT_IN_FOLDER) \cup {Bare("Folder")} |->
                IF key = Bare("Folder") THEN Dict(folder_data(data)) ELSE data[key]]
    IN  Dict(foldered(dumped(PrefixedDump(KMLFields, o.c))))

\* [Waypoint.from_dict(wp) for wp in waypoints_data]; iterating a mapping yields
\* its keys, and a key (a str) has no .items
WaypointsFromList(value) ==
    CASE value.k = "list" ->
           ListOrRaised([i \in 1..Len(value.c) |-> Waypoint_from_dict(value.c[i])])
      [] value.k = "dict" ->
           IF DOMAIN value.c = {} THEN List(<< >>) ELSE Err("AttributeError")
      [] value.k \in {"str", "numeral", "joined"} -> Err("AttributeError")
      [] OTHER -> Err("TypeError")

\* {**data, **folder_data} after folder_data = data.pop("Folder", {})
MergeFolder(d) ==
    LET folder_data == Get(d, Bare("Folder"), EmptyDict)
        rest == DOMAIN d \ {Bare("Folder")}
    IN  IF folder_data.k # "dict" THEN Err("TypeError")
        ELSE Dict([key \in rest \cup DOMAIN folder_data.c |->
                      IF key \in DOMAIN folder_data.c THEN folder_data.c[key] ELSE d[key]])

\* KML.from_dict(data)
KML_from_dict(data) ==
    IF data.k # "dict" THEN Err("AttributeError")
    ELSE
    LET fs == KMLFields \o KMLModels \o KMLWaypoints
        merged == MergeFolder(data.c)
        stripped == StripKeys(merged.c)
        waypoints == WaypointsFromList(Get(stripped, Bare("Placemark"), List(<< >>)))
        rest == [key \in DOMAIN stripped \ {Bare("Placemark")} |-> stripped[key]]
        renamed == CleanData(fs, rest)
        unknown == {fkey \in DOMAIN renamed :
                       Len(fkey) # 1 \/ fkey[1] \notin FieldNames(fs)}
        clean_data ==
            [fkey \in DOMAIN renamed |->
                IF fkey[1] \in FieldNames(KMLModels) /\ renamed[fkey].k = "dict"
                THEN CASE fkey[1] = "mission_config" -> MissionConfig_from_dict(renamed[fkey])
                       [] fkey[1] = "coordinate_system_param" ->
                            CoordinateSystemParam_from_dict(renamed[fkey])
                       [] OTHER -> WaypointHeadingParam_from_dict(renamed[fkey])
                ELSE renamed[fkey]]
        cls(kw, wps) ==
            CASE IsErr(wps) -> wps
              [] unknown # {} -> Err("KeyError")
              [] Raised(kw) # None -> Raised(kw)
              [] Bare("waypoints") \in DOMAIN kw -> Err("TypeError")
              [] OTHER -> NewKML(Extend(KeywordsOf(kw), "waypoints", wps))
    IN  IF IsErr(merged) THEN merged ELSE cls(clean_data, waypoints)

\* ------------------------------------------------------------------------
\* XML text: what xmltodict.parse gives back for what xmltodict.unparse wrote
\* ------------------------------------------------------------------------
RECURSIVE XmlTree(_)
\* xmltodict.parse(xmltodict.unparse({root: v}))[root]: a number comes back as
\* its numeral, an empty string or mapping as None, a list of one element as
\* that element, and a key holding an empty list does not come back at all
XmlTree(v) ==
    CASE v.k = "num" -> Numeral(v.n)
      [] v.k = "str" -> IF v.s = "" THEN None ELSE v
      [] v.k = "list" -> List([i \in 1..Len(v.c) |-> XmlTree(v.c[i])])
      [] v.k = "dict" ->
           LET kept == {key \in DOMAIN v.c : ~(v.c[key].k = "list" /\ Len(v.c[key].c) = 0)}
           IN  IF kept = {} THEN None
               ELSE Dict([key \in kept |->
                        IF v.c[key].k = "list" /\ Len(v.c[key].c) = 1
                        THEN XmlTree(v.c[key].c[1])
                        ELSE XmlTree(v.c[key])])
      [] OTHER -> v

\* ActionGroup.from_xml, applied to the parsed element "wpml:actionGroup"
ActionGroup_from_xml(data) ==
    LET group_id == PyInt(Get(data.c, Wpml("actionGroupId"), Num(0)))
        start_waypoint_id == PyInt(Get(data.c, Wpml("actionGroupStartIndex"), Num(0)))
        end_waypoint_id == PyInt(Get(data.c, Wpml("actionGroupEndIndex"), Num(0)))
        execution_mode == Get(data.c, Wpml("actionGroupMode"), Str("sequence"))
        actions == ActionsFromList(Get(data.c, Wpml("action"), List(<< >>)))
        trigger == ActionTrigger_from_dict(Get(data.c, Wpml("actionTrigger"), None))
    IN  CASE data.k # "dict" -> Err("AttributeError")
          [] IsErr(group_id) -> group_id
          [] IsErr(start_waypoint_id) -> start_waypoint_id
          [] IsErr(end_waypoint_id) -> end_waypoint_id
          [] IsErr(actions) -> actions
          [] IsErr(trigger) -> trigger
          [] OTHER ->
               NewActionGroup(
                   [x \in {"group_id", "start_waypoint_id", "end_waypoint_id",
                           "execution_mode", "actions", "trigger"} |->
                       CASE x = "group_id" -> group_id
                         [] x = "start_waypoint_id" -> start_waypoint_id
                         [] x = "end_waypoint_id" -> end_waypoint_id
                         [] x = "execution_mode" -> execution_mode
                         [] x = "actions" -> actions
                         [] x = "trigger" -> trigger])

\* Action.from_xml, applied to the parsed element "wpml:action"; the test
\* "xml_key in action_params" on a text that is no mapping finds no key
Action_from_xml(data) ==
    LET action_id == IF Wpml("actionId") \in DOMAIN data.c
                     THEN PyInt(data.c[Wpml("actionId")]) ELSE Err("KeyError")
        action_type == ToActionType(Get(data.c, Wpml("actionActuatorFunc"), None))
        given == Get(data.c, Wpml("actionActuatorFuncParam"), EmptyDict)
        action_params == IF given.k = "dict" THEN given.c ELSE << >>
        taken(cls_fields) ==
            {i \in 1..Len(cls_fields) :
                /\ Wpml(cls_fields[i].alias) \in DOMAIN action_params
                /\ action_params[Wpml(cls_fields[i].alias)] # None}
        cls_params(cls_fields) ==
            [name \in {cls_fields[i].name : i \in taken(cls_fields)} \cup {"action_id"} |->
                IF name = "action_id" THEN action_id
                ELSE action_params[Wpml(FieldNamed(cls_fields, name).alias)]]
    IN  CASE data.k # "dict" -> Err("TypeError")
          [] IsErr(action_id) -> action_id
          [] IsErr(action_type) -> action_type
          [] action_type.s \notin DOMAIN ACTION_REGISTRY -> Err("KeyError")
          [] OTHER -> NewAction(ACTION_REGISTRY[action_type.s],
                                cls_params(OwnFields(ACTION_REGISTRY[action_type.s])))

\* cls.from_xml of the classes that have one modelled, applied to the parsed root element
FromXmlOf(cls, data) ==
    IF cls = "ActionGroup" THEN ActionGroup_from_xml(data) ELSE Action_from_xml(data)

\* ------------------------------------------------------------------------
\* Inputs: constructor keywords drawn from the schema
\* ------------------------------------------------------------------------
\* at most this many parameter fields are given a value in one constructor call
MaxOverrides == 1

\* values tried for one field: each declared bound and its two neighbours one
\* unit away, acceptable and unacceptable tokens, None
Samples(fd) ==
    LET nums == UNION {{b - 10, b} : b \in fd.ge} \cup UNION {{b, b + 10} : b \in fd.le}
                  \cup UNION {{b - 10, b, b + 10} : b \in fd.gt}
    IN  CASE fd.ty \in {"int", "float"} ->
               {Tenths(n) : n \in nums}
                 \cup (IF fd.ge \cup fd.gt = {} THEN {Tenths(-15)} ELSE {})
                 \cup (IF fd.le = {} THEN {Tenths(25), Num(3)} ELSE {})
                 \cup (IF fd.opt THEN {None} ELSE {})
          [] fd.ty = "str" ->
               {Str(""), Str("test")} \cup (IF fd.opt THEN {None} ELSE {})
          [] fd.ty = "lens" -> {None, Str("zoom"), Str("wide"), Str("bogus")}
          [] fd.ty = "intenum" -> {Num(42), Num(68), Num(65534), Num(99)}
          [] fd.ty = "nonetype" -> {None, Num(3)}
          [] OTHER -> {Str(t) : t \in fd.vals} \cup {Str("bogus")}

RECURSIVE Keywords(_, _)
\* the keyword sets giving a sample value to at most m of the fields fs
Keywords(fs, m) ==
    IF m = 0 THEN {<< >>}
    ELSE LET prev == Keywords(fs, m - 1)
         IN  prev \cup
             UNION {UNION {{Extend(kw, fs[i].name, v) : v \in Samples(fs[i])} :
                              i \in {j \in 1..Len(fs) : fs[j].name \notin DOMAIN kw}} :
                       kw \in prev}

\* constructor calls of the action classes: the id and the kind tag varied
\* with default parameters, and the parameters varied with id 1 and no tag
\* TakePhotoAction(action_id=1, payload_position=1, file_suffix="test",
\*                 payload_lens=PAYLOAD_LENS.ZOOM)
TakePhotoScenario ==
    [cls |-> "TakePhotoAction",
     kw |-> [x \in {"action_id", "payload_position", "file_suffix", "payload_lens"} |->
                CASE x = "action_id" -> Num(1)
                  [] x = "payload_position" -> Num(1)
                  [] x = "file_suffix" -> Str("test")
                  [] x = "payload_lens" -> Str("zoom")]]

ActionArgs ==
    {TakePhotoScenario} \cup
    UNION {
        {[cls |-> cls, kw |-> kw] :
            kw \in Keywords(ActionFields, 2) \cup
                   {Extend(kw, "action_id", Num(1)) : kw \in Keywords(OwnFields(cls), MaxOverrides)}} :
        cls \in ActionClasses \cup {"Action"}}

\* the actions put into groups (those of TestActionGroup.test_xml_roundtrip)
SampleActions ==
    { NewAction("TakePhotoAction", Kw(<< <<"action_id", Num(1)>>, <<"file_suffix", Str("photo1")>> >>)),
      NewAction("HoverAction", Kw(<< <<"action_id", Num(2)>>, <<"hover_time", Num(3)>> >>)),
      NewAction("RotateYawAction", Kw(<< <<"action_id", Num(3)>>, <<"aircraft_heading", Num(180)>> >>)) }

\* the longest action list of a group
MaxActions == 2

RECURSIVE SeqsUpTo(_, _)
\* the sequences of at most n elements of S
SeqsUpTo(S, n) ==
    IF n = 0 THEN {<< >>}
    ELSE LET prev == SeqsUpTo(S, n - 1)
         IN  prev \cup {Append(q, x) : q \in {p \in prev : Len(p) = n - 1}, x \in S}

SampleTriggers ==
    { NewActionTrigger(Kw(<< <<"type", Str("multipleTiming")>>, <<"param", Tenths(25)>> >>)),
      NewActionTrigger(Kw(<< <<"type", Str("betweenAdjacentPoints")>> >>)) }

\* with(kw, name, values): kw itself and kw with name set to each of the values
With(kws, name, values) == kws \cup {Extend(kw, name, v) : kw \in kws, v \in values}

\* constructor calls of ActionGroup: the three indices varied over an empty
\* group, and the action list and trigger varied over fixed indices
ActionGroupArgs ==
    {[cls |-> "ActionGroup", kw |-> kw] :
        kw \in With(With(With({<< >>}, "group_id", {Num(-1), Num(0), Num(1), Num(5)}),
                         "start_waypoint_id", {Num(0), Num(3), Num(5), Num(10)}),
                    "end_waypoint_id", {Num(1), Num(5), Num(8), Num(15)})
               \cup
               With({Extend(Kw(<< <<"group_id", Num(5)>>, <<"start_waypoint_id", Num(10)>>,
                                  <<"end_waypoint_id", Num(15)>> >>),
                            "actions", List(q)) : q \in SeqsUpTo(SampleActions, MaxActions)},
                    "trigger", SampleTriggers)}

ActionTriggerArgs ==
    {[cls |-> "ActionTrigger", kw |-> kw] : kw \in Keywords(ActionTriggerFields, 2)}

\* constructor calls of the classes of mission_config.py
SamplePayloadInfo == NewPayloadInfo(Kw(<< <<"payload_model", Num(67)>>, <<"position", Num(1)>> >>))
SampleDroneInfo == {NewDroneInfo(Kw(<< <<"drone_model", Str(m)>> >>)) : m \in {"M350", "M30T", "M3E"}}

MissionArgs ==
    {[cls |-> "PayloadInfo", kw |-> kw] : kw \in Keywords(PayloadInfoFields, 2)} \cup
    {[cls |-> "DroneInfo", kw |-> kw] : kw \in Keywords(DroneInfoFields, 1)} \cup
    {[cls |-> "MissionConfig", kw |-> kw] :
        kw \in With(With(Keywords(MissionConfigFields, 1), "payload_info", {SamplePayloadInfo}),
                    "drone_info", SampleDroneInfo)}

\* constructor calls of the parameter classes of a waypoint
SamplePoi ==
    NewWaypointPoiPoint(Kw(<< <<"latitude", Tenths(375)>>, <<"longitude", Num(-122)>>,
                              <<"altitude", Num(100)>> >>))

ParamArgs ==
    {[cls |-> "CoordinateSystemParam", kw |-> kw] :
        kw \in Keywords(CoordinateSystemParamFields, 1)} \cup
    {[cls |-> "WaypointHeadingParam", kw |-> kw] :
        kw \in With(Keywords(WaypointHeadingParamFields, 2), "waypoint_poi_point", {SamplePoi})} \cup
    {[cls |-> "WaypointTurnParam", kw |-> kw] : kw \in Keywords(WaypointTurnParamFields, 2)}

SampleHeading ==
    NewWaypointHeadingParam(Kw(<< <<"waypoint_heading_mode", Str("smoothTransition")>>,
                                  <<"waypoint_heading_angle", Num(45)>> >>))
SampleTurn ==
    NewWaypointTurnParam(Kw(<< <<"waypoint_turn_mode", Str("coordinateTurn")>>,
                               <<"waypoint_turn_damping_dist", Tenths(25)>> >>))
SampleGroup ==
    NewActionGroup(Kw(<< <<"group_id", Num(1)>>,
                         <<"actions", List(<<CHOOSE a \in SampleActions : a.s = "TakePhotoAction",
                                             CHOOSE a \in SampleActions : a.s = "HoverAction">>)>> >>))

\* Point(latitude=37.5, longitude=-122), the origin, and the edges of the ranges
PointArgs ==
    {[cls |-> "Point", kw |-> kw] :
        kw \in Keywords(PointFields, 2) \cup
               {Kw(<< <<"latitude", Tenths(Dec(37, 5))>>, <<"longitude", Num(-122)>> >>),
                Kw(<< <<"latitude", Num(0)>>, <<"longitude", Num(0)>> >>)}}

\* Waypoint(latitude=37.5, longitude=-122, ...)
WaypointArgs ==
    {[cls |-> "Waypoint", kw |-> kw] :
        kw \in Keywords(WaypointFields, 1) \cup
               With(With(With({Extend(Extend(kw, "latitude", Tenths(375)), "longitude", Num(-122)) :
                                  kw \in Keywords(SubSeq(WaypointFields, 3, Len(WaypointFields)), 1)},
                              "heading_param", {SampleHeading}),
                         "turn_param", {SampleTurn}),
                    "action_group", {SampleGroup})}

SampleWaypoints ==
    { NewWaypoint(Kw(<< <<"latitude", Tenths(375)>>, <<"longitude", Num(-122)>> >>)),
      NewWaypoint(Kw(<< <<"latitude", Num(0)>>, <<"longitude", Num(10)>>,
                        <<"waypoint_id", Num(1)>>, <<"turn_param", SampleTurn>> >>)) }

\* the longest waypoint list of a document
MaxWaypoints == 2

KMLArgs ==
    {[cls |-> "KML", kw |-> kw] :
        kw \in With(With(Keywords(KMLFields, 1), "waypoints",
                         {List(q) : q \in SeqsUpTo(SampleWaypoints, MaxWaypoints)}),
                    "mission_config",
                    {NewMissionConfig(Kw(<< <<"rclost_action", Str("goBack")>>,
                                            <<"payload_info", SamplePayloadInfo>> >>))})}

\* ------------------------------------------------------------------------
\* What is done to a serialized record before it is parsed again
\* ------------------------------------------------------------------------
RECURSIVE DeepStrip(_)
\* the tree v with the prefix removed from every key
DeepStrip(v) ==
    CASE v.k = "dict" -> Dict(StripKeys([key \in DOMAIN v.c |-> DeepStrip(v.c[key])]))
      [] v.k = "list" -> List([i \in 1..Len(v.c) |-> DeepStrip(v.c[i])])
      [] OTHER -> v

\* the wire keys of a class that hold an enum token
EnumKeys(cls) ==
    CASE cls = "ActionGroup" -> {}
      [] cls = "ActionTrigger" -> {Wpml("actionTriggerType")}
      [] cls = "PayloadInfo" -> {Wpml("payloadEnumValue")}
      [] cls = "DroneInfo" -> {}
      [] cls = "MissionConfig" ->
           {Wpml("flyToWaylineMode"), Wpml("finishAction"), Wpml("exitOnRCLost"),
            Wpml("executeRCLostAction")}
      [] cls = "CoordinateSystemParam" ->
           {Wpml("coordinateMode"), Wpml("heightMode"), Wpml("positioningType")}
      [] cls = "WaypointHeadingParam" ->
           {Wpml("waypointHeadingMode"), Wpml("waypointHeadingPathMode")}
      [] cls = "WaypointTurnParam" -> {Wpml("waypointTurnMode")}
      [] cls = "Waypoint" -> {}
      [] cls = "KML" -> {}
      [] OTHER -> {Wpml("actionActuatorFunc")}

\* tokens of no vocabulary
BadTokens == {Str("bogus"), Num(99)}

\* the most parts of a coordinate text
MaxParts == 4

\* the texts "37.5" and "-122.0"
CoordinateParts == {Numeral(Dec(37, 5)), Numeral(Dec(-122, 0))}

\* ','.join(parts)
CommaJoin(parts) ==
    CASE Len(parts) = 0 -> Str("")
      [] Len(parts) = 1 -> parts[1]
      [] OTHER -> Joined(parts)

\* point-of-interest texts of up to MaxParts parts
PoiTexts == {CommaJoin(parts) : parts \in SeqsUpTo(CoordinateParts, MaxParts)}

\* <Point> elements whose coordinates have two parts
PointTexts ==
    {Dict([key \in {Bare("coordinates")} |-> Joined(<<first, second>>)]) :
        first \in CoordinateParts \cup {Numeral(Dec(10, 0))}, second \in CoordinateParts}

\* the scalar fields of a class that has integer fields with a declared range
ScalarFields(cls) ==
    CASE cls = "ActionGroup" -> ActionGroupFields
      [] cls = "Waypoint" -> WaypointFields
      [] cls = "KML" -> KMLFields
      [] cls \in ActionClasses -> model_fields(cls)
      [] OTHER -> << >>

\* the integer fields among fs that declare ge= or le=
Ranged(fs) ==
    {fs[i] : i \in {j \in 1..Len(fs) : fs[j].ty = "int" /\ fs[j].ge \cup fs[j].le # {}}}

\* each bound of a field and the integer one past it
EdgeValues(fd) ==
    UNION {{Tenths(b - 10), Tenths(b)} : b \in fd.ge} \cup
    UNION {{Tenths(b), Tenths(b + 10)} : b \in fd.le}

\* the fields of a record that its to_dict writes inside a nested block: the
\* parameters of an action, the folder fields of a document
NestedNames(cls) ==
    CASE cls = "KML" -> FieldNames(KMLFields) \ {"author", "create_time", "update_time"}
      [] cls \in ActionClasses -> FieldNames(OwnFields(cls))
      [] OTHER -> {}

\* the keys that a parser reads with a default: the parameter block of an
\* action, the start and the end index of an action group
DefaultedKeys ==
    {Wpml("actionActuatorFuncParam"), Wpml("actionGroupStartIndex"), Wpml("actionGroupEndIndex")}

\* what an empty parameter block is: an empty mapping, or the None that an
\* empty XML element parses to
EmptyBlocks == {EmptyDict, None}

\* the classes whose from_xml is modelled
XmlClasses == {"ActionGroup"}
XmlParsers == ActionClasses \cup {"Action", "ActionGroup"}

\* the ways a mapping is changed: an extra key of no known wire name, every
\* prefix removed, an enum-valued key set to a token outside the vocabulary,
\* the defaulted keys left out, the parameter block emptied, a coordinate
\* text replaced, a ranged integer set to a bound or one past it
Changes(cls) ==
    {[kind |-> "extra", key |-> Wpml("vendorField"), token |-> Str("x")],
     [kind |-> "bare", key |-> << >>, token |-> None]} \cup
    {[kind |-> "token", key |-> key, token |-> t] : key \in EnumKeys(cls), t \in BadTokens} \cup
    (IF cls \in XmlParsers
     THEN {[kind |-> "drop", key |-> << >>, token |-> None]} ELSE {}) \cup
    (IF cls \in XmlParsers \ {"ActionGroup"}
     THEN {[kind |-> "block", key |-> Wpml("actionActuatorFuncParam"), token |-> t] :
              t \in EmptyBlocks}
     ELSE {}) \cup
    (IF cls = "WaypointHeadingParam"
     THEN {[kind |-> "text", key |-> Wpml("waypointPoiPoint"), token |-> t] : t \in PoiTexts}
     ELSE {}) \cup
    (IF cls = "Waypoint"
     THEN {[kind |-> "text", key |-> Bare("Point"), token |-> t] : t \in PointTexts}
     ELSE {}) \cup
    UNION {{[kind |-> IF fd.name \in NestedNames(cls) THEN "rangein" ELSE "range",
             key |-> Wpml(fd.alias), token |-> t] : t \in EdgeValues(fd)} :
              fd \in Ranged(ScalarFields(cls))}

\* the key of the nested block of a mapping
BlockKey(d) ==
    IF Bare("Folder") \in DOMAIN d THEN Bare("Folder") ELSE Wpml("actionActuatorFuncParam")

Changed(data, change) ==
    CASE change.kind = "bare" -> DeepStrip(data)
      [] change.kind = "rangein" ->
           Dict(Extend(data.c, BlockKey(data.c),
                       Dict(Extend(data.c[BlockKey(data.c)].c, change.key, change.token))))
      [] change.kind = "drop" ->
           Dict([key \in DOMAIN data.c \ DefaultedKeys |-> data.c[key]])
      [] OTHER -> Dict(Extend(data.c, change.key, change.token))

\* ------------------------------------------------------------------------
\* The life of one record: construction, serialization, parsing
\* ------------------------------------------------------------------------
VARIABLES
    pc,     \* "args", "built", "wire", "parsed", "xml", "xmlparsed", "reparsed",
            \* "xmlreparsed", "parsedtwice"
    arg,    \* the constructor call: [cls, kw]
    obj,    \* the constructed record, or the error construction raised
    wire,   \* obj.to_dict()
    back,   \* from_dict(wire)
    xml,    \* xmltodict.parse(obj.to_xml()), below the root element
    backx,  \* from_xml(obj.to_xml())
    change, \* what was done to wire before it was parsed a second time
    back2,  \* from_dict of the changed wire
    actions,    \* the action list of the group the list operations work on
    result,     \* what the last list operation returned or raised
    manual,     \* whether some operation was called with auto_id or auto_renumber off
    task,       \* the DroneTask, with its waypoints and their builders
    outcome     \* what the last call on the task or on a builder returned or raised

vars == <<pc, arg, obj, wire, back, xml, backx, change, back2, actions, result, manual,
          task, outcome>>
ops == <<actions, result, manual>>
pipeline == <<pc, arg, obj, wire, back, xml, backx, change, back2>>
builder == <<task, outcome>>

\* cls(**kw)
New(cls, kw) ==
    CASE cls = "ActionGroup" -> NewActionGroup(kw)
      [] cls = "ActionTrigger" -> NewActionTrigger(kw)
      [] cls = "PayloadInfo" -> NewPayloadInfo(kw)
      [] cls = "DroneInfo" -> NewDroneInfo(kw)
      [] cls = "MissionConfig" -> NewMissionConfig(kw)
      [] cls = "CoordinateSystemParam" -> NewCoordinateSystemParam(kw)
      [] cls = "WaypointHeadingParam" -> NewWaypointHeadingParam(kw)
      [] cls = "WaypointTurnParam" -> NewWaypointTurnParam(kw)
      [] cls = "Point" -> NewPoint(kw)
      [] cls = "Waypoint" -> NewWaypoint(kw)
      [] cls = "KML" -> NewKML(kw)
      [] OTHER -> NewAction(cls, kw)

\* o.to_dict()
ToDict(o) ==
    CASE o.s = "ActionGroup" -> ActionGroup_to_dict(o)
      [] o.s = "ActionTrigger" -> ActionTrigger_to_dict(o)
      [] o.s = "PayloadInfo" -> PayloadInfo_to_dict(o)
      [] o.s = "DroneInfo" -> DroneInfo_to_dict(o)
      [] o.s = "MissionConfig" -> MissionConfig_to_dict(o)
      [] o.s = "CoordinateSystemParam" -> CoordinateSystemParam_to_dict(o)
      [] o.s = "WaypointHeadingParam" -> WaypointHeadingParam_to_dict(o)
      [] o.s = "WaypointTurnParam" -> WaypointTurnParam_to_dict(o)
      [] o.s = "Point" -> Point_to_dict(o.c["latitude"], o.c["longitude"])
      [] o.s = "Waypoint" -> Waypoint_to_dict(o)
      [] o.s = "KML" -> KML_to_dict(o)
      [] OTHER -> Action_to_dict(o)

\* the from_dict of the class of o (for an action: of the base class Action)
FromDict(o, data) ==
    CASE o.s = "ActionGroup" -> ActionGroup_from_dict(data)
      [] o.s = "ActionTrigger" -> ActionTrigger_from_dict(data)
      [] o.s = "PayloadInfo" -> PayloadInfo_from_dict(data)
      [] o.s = "DroneInfo" -> DroneInfo_from_dict(data)
      [] o.s = "MissionConfig" -> MissionConfig_from_dict(data)
      [] o.s = "CoordinateSystemParam" -> CoordinateSystemParam_from_dict(data)
      [] o.s = "WaypointHeadingParam" -> WaypointHeadingParam_from_dict(data)
      [] o.s = "WaypointTurnParam" -> WaypointTurnParam_from_dict(data)
      [] o.s = "Point" -> Point_from_dict(data)
      [] o.s = "Waypoint" -> Waypoint_from_dict(data)
      [] o.s = "KML" -> KML_from_dict(data)
      [] OTHER -> Action_from_dict("Action", data)

\* the mapping the caller holds once from_dict has returned: KML.from_dict pops
\* the 'Folder' entry out of the mapping it is given, the other from_dict
\* methods build a mapping of their own
LeftByFromDict(o, data) ==
    IF o.s = "KML" /\ data.k = "dict"
    THEN Dict([key \in DOMAIN data.c \ {Bare("Folder")} |-> data.c[key]])
    ELSE data

Init ==
    /\ pc = "args"
    /\ arg \in ActionArgs \cup ActionGroupArgs \cup ActionTriggerArgs \cup MissionArgs
               \cup ParamArgs \cup PointArgs \cup WaypointArgs \cup KMLArgs
    /\ obj = None
    /\ wire = None
    /\ back = None
    /\ xml = None
    /\ backx = None
    /\ change = None
    /\ back2 = None
    /\ actions = << >>
    /\ result = None
    /\ manual = FALSE
    /\ task = None
    /\ outcome = None

Construct ==
    /\ pc = "args"
    /\ obj' = New(arg.cls, arg.kw)
    /\ pc' = "built"
    /\ UNCHANGED <<arg, wire, back, xml, backx, change, back2>>
    /\ UNCHANGED <<ops, builder>>

Serialize ==
    /\ pc = "built"
    /\ ~IsErr(obj)
    /\ wire' = ToDict(obj)
    /\ pc' = "wire"
    /\ UNCHANGED <<arg, obj, back, xml, backx, change, back2>>
    /\ UNCHANGED <<ops, builder>>

Parse ==
    /\ pc = "wire"
    /\ back' = FromDict(obj, wire)
    /\ pc' = "parsed"
    /\ UNCHANGED <<arg, obj, wire, xml, backx, change, back2>>
    /\ UNCHANGED <<ops, builder>>

\* obj.to_xml(), read again by xmltodict.parse
ToXml ==
    /\ pc = "parsed"
    /\ obj.s \in XmlClasses
    /\ xml' = XmlTree(ToDict(obj))
    /\ pc' = "xml"
    /\ UNCHANGED <<arg, obj, wire, back, backx, change, back2>>
    /\ UNCHANGED <<ops, builder>>

FromXml ==
    /\ pc = "xml"
    /\ backx' = ActionGroup_from_xml(xml)
    /\ pc' = "xmlparsed"
    /\ UNCHANGED <<arg, obj, wire, back, xml, change, back2>>
    /\ UNCHANGED <<ops, builder>>

\* a mapping that differs from obj.to_dict() in one of the ways of Changes is
\* handed to from_dict
ParseChanged ==
    /\ pc = "parsed"
    /\ \E ch \in Changes(obj.s) :
          /\ change' = ch
          /\ back2' = FromDict(obj, Changed(wire, ch))
    /\ pc' = "reparsed"
    /\ UNCHANGED <<arg, obj, wire, back, xml, backx>>
    /\ UNCHANGED <<ops, builder>>

\* the changed mapping is written as XML, read again by xmltodict.parse and
\* handed to from_xml
FromXmlChanged ==
    /\ pc = "parsed"
    /\ obj.s \in XmlParsers
    /\ \E ch \in {c \in Changes(obj.s) : c.kind \in {"drop", "block"}} :
          /\ change' = ch
          /\ back2' = FromXmlOf(obj.s, XmlTree(Changed(wire, ch)))
    /\ pc' = "xmlreparsed"
    /\ UNCHANGED <<arg, obj, wire, back, xml, backx>>
    /\ UNCHANGED <<ops, builder>>

\* from_dict is called a second time on the mapping the first call was given
ParseAgain ==
    /\ pc = "parsed"
    /\ change' = [kind |-> "parsed", key |-> << >>, token |-> LeftByFromDict(obj, wire)]
    /\ back2' = FromDict(obj, LeftByFromDict(obj, wire))
    /\ pc' = "parsedtwice"
    /\ UNCHANGED <<arg, obj, wire, back, xml, backx>>
    /\ UNCHANGED <<ops, builder>>

\* config.rclost_action = action, as DroneTask.return_home_on_signal_loss does
\* with CONTINUE and HOVER; an assignment is not validated
AssignRCLostAction ==
    /\ pc = "built"
    /\ obj.k = "obj" /\ obj.s = "MissionConfig"
    /\ \E action \in RCLostAction :
          obj' = Obj("MissionConfig", [obj.c EXCEPT !["rclost_action"] = Str(action)])
    /\ UNCHANGED <<pc, arg, wire, back, xml, backx, change, back2>>
    /\ UNCHANGED <<ops, builder>>

Next ==
    \/ Construct \/ AssignRCLostAction \/ Serialize \/ Parse \/ ToXml \/ FromXml
    \/ ParseChanged \/ FromXmlChanged \/ ParseAgain

Spec == Init /\ [][Next]_vars

\* ------------------------------------------------------------------------
\* The list operations of an action group, on ActionGroup(group_id=1)
\* ------------------------------------------------------------------------
\* action.model_dump(): Action.ser_model makes it action.to_dict()
model_dump(a) == Action_to_dict(a)

\* action_dict = action.model_dump(); action_dict['action_id'] = i;
\* type(action)(**action_dict)
WithId(a, i) == NewAction(a.s, Extend(KeywordsOf(model_dump(a).c), "action_id", Num(i)))

\* renumber_actions with enumerate(self.actions) counting from 0
renumber_actions_from0(q) == [i \in 1..Len(q) |-> WithId(q[i], i - 1)]

\* ActionGroup._renumber_actions
renumber_actions(q) == [i \in 1..Len(q) |-> WithId(q[i], i)]

\* list.insert(index, x) and list.pop(index), index counted from 0
ListInsert(q, index, x) == SubSeq(q, 1, index) \o <<x>> \o SubSeq(q, index + 1, Len(q))
ListPop(q, index) == SubSeq(q, 1, index) \o SubSeq(q, index + 2, Len(q))

\* the most actions the group is given
MaxGroup == 3

\* the indices and ids the operations are called with
Indices == -1..(Len(actions) + 1)
Ids == 0..(MaxGroup + 1)

\* group.add_action(action, auto_id)
add_action_call(action, auto_id) ==
    /\ Len(actions) < MaxGroup
    /\ actions' = Append(actions, IF auto_id THEN WithId(action, Len(actions) + 1)
                                  ELSE action)
    /\ result' = None
    /\ manual' = (manual \/ ~auto_id)
    /\ UNCHANGED <<pipeline, builder>>

add_action ==
    \E action \in SampleActions, auto_id \in BOOLEAN : add_action_call(action, auto_id)

\* insert_action putting the action at the end whatever the index
insert_action_call_append(index, action, auto_renumber) ==
    /\ IF index < 0 \/ index > Len(actions)
       THEN /\ result' = Err("ValueError")
            /\ UNCHANGED actions
       ELSE /\ Len(actions) < MaxGroup
            /\ actions' = IF auto_renumber
                          THEN renumber_actions(Append(actions, action))
                          ELSE Append(actions, action)
            /\ result' = None
    /\ manual' = (manual \/ ~auto_renumber)
    /\ UNCHANGED <<pipeline, builder>>
insert_action_call(index, action, auto_renumber) ==
    /\ IF index < 0 \/ index > Len(actions)
       THEN /\ result' = Err("ValueError")
            /\ UNCHANGED actions
       ELSE /\ Len(actions) < MaxGroup
            /\ actions' = IF auto_renumber
                          THEN renumber_actions(ListInsert(actions, index, action))
                          ELSE ListInsert(actions, index, action)
            /\ result' = None
    /\ manual' = (manual \/ ~auto_renumber)
    /\ UNCHANGED <<pipeline, builder>>

insert_action ==
    \E index \in Indices, action \in SampleActions, auto_renumber \in BOOLEAN :
        insert_action_call(index, action, auto_renumber)

\* group.remove_action(action_id, auto_renumber)
remove_action_call(action_id, auto_renumber) ==
    LET found == {i \in 1..Len(actions) : actions[i].c["action_id"] = Num(action_id)}
    IN  /\ IF found = {}
           THEN /\ result' = Bool(FALSE)
                /\ UNCHANGED actions
           ELSE LET i == CHOOSE i \in found : \A j \in found : i <= j
                IN  /\ actions' = IF auto_renumber
                                  THEN renumber_actions(ListPop(actions, i - 1))
                                  ELSE ListPop(actions, i - 1)
                    /\ result' = Bool(TRUE)
        /\ manual' = (manual \/ ~auto_renumber)
        /\ UNCHANGED <<pipeline, builder>>

remove_action ==
    \E action_id \in Ids, auto_renumber \in BOOLEAN :
        remove_action_call(action_id, auto_renumber)

\* group.remove_action_at(index, auto_renumber)
remove_action_at_call(index, auto_renumber) ==
    /\ IF index < 0 \/ index >= Len(actions)
       THEN /\ result' = Err("IndexError")
            /\ UNCHANGED actions
       ELSE /\ actions' = IF auto_renumber
                          THEN renumber_actions(ListPop(actions, index))
                          ELSE ListPop(actions, index)
            /\ result' = actions[index + 1]
    /\ manual' = (manual \/ ~auto_renumber)
    /\ UNCHANGED <<pipeline, builder>>

remove_action_at ==
    \E index \in Indices, auto_renumber \in BOOLEAN : remove_action_at_call(index, auto_renumber)

\* move_action popping the action before it checks to_index
move_action_call_popfirst(from_index, to_index, auto_renumber) ==
    /\ CASE from_index < 0 \/ from_index >= Len(actions) ->
              /\ result' = Err("IndexError")
              /\ UNCHANGED actions
         [] to_index < 0 \/ to_index >= Len(actions) ->
              /\ result' = Err("IndexError")
              /\ actions' = ListPop(actions, from_index)
         [] OTHER ->
              LET moved == ListInsert(ListPop(actions, from_index), to_index,
                                      actions[from_index + 1])
              IN  /\ actions' = IF auto_renumber THEN renumber_actions(moved) ELSE moved
                  /\ result' = None
    /\ manual' = (manual \/ ~auto_renumber)
    /\ UNCHANGED <<pipeline, builder>>
move_action_call(from_index, to_index, auto_renumber) ==
    /\ IF \/ from_index < 0 \/ from_index >= Len(actions)
          \/ to_index < 0 \/ to_index >= Len(actions)
       THEN /\ result' = Err("IndexError")
            /\ UNCHANGED actions
       ELSE LET moved == ListInsert(ListPop(actions, from_index), to_index,
                                    actions[from_index + 1])
            IN  /\ actions' = IF auto_renumber THEN renumber_actions(moved) ELSE moved
                /\ result' = None
    /\ manual' = (manual \/ ~auto_renumber)
    /\ UNCHANGED <<pipeline, builder>>

move_action ==
    \E from_index \in Indices, to_index \in Indices, auto_renumber \in BOOLEAN :
        move_action_call(from_index, to_index, auto_renumber)

clear_actions ==
    /\ actions' = << >>
    /\ result' = None
    /\ UNCHANGED manual
    /\ UNCHANGED <<pipeline, builder>>

\* ActionGroup(group_id=1): no actions yet
InitOps ==
    /\ pc = "ops"
    /\ arg = None
    /\ obj = None
    /\ wire = None
    /\ back = None
    /\ xml = None
    /\ backx = None
    /\ change = None
    /\ back2 = None
    /\ actions = << >>
    /\ result = None
    /\ manual = FALSE
    /\ task = None
    /\ outcome = None

NextOps ==
    \/ add_action
    \/ insert_action
    \/ remove_action
    \/ remove_action_at
    \/ move_action
    \/ clear_actions

SpecOps == InitOps /\ [][NextOps]_vars

\* ------------------------------------------------------------------------
\* task_builder.py: DroneTask and WaypointBuilder
\* ------------------------------------------------------------------------
\* DRONE_CONFIGS: the defaults and limits of each drone model
DRONE_CONFIGS ==
    [model \in {DroneModel[i] : i \in 1..Len(DroneModel)} |->
        CASE model \in {"M350", "M300"} ->
               [default_height |-> Num(100), default_speed |-> Num(10),
                max_speed |-> Num(17), supports_rtk |-> TRUE,
                takeoff_security_height |-> Num(5), default_payload |-> Num(42)]
          [] OTHER ->
               [default_height |-> Num(80), default_speed |-> Num(8),
                max_speed |-> Num(15), supports_rtk |-> model \in {"M30", "M30T"},
                takeoff_security_height |-> Num(3),
                default_payload |->
                    CASE model = "M30" -> Num(52) [] model = "M30T" -> Num(53)
                      [] model = "M3E" -> Num(66) [] model = "M3T" -> Num(67)
                      [] model = "M3M" -> Num(68) [] model = "M3D" -> Num(80)
                      [] OTHER -> Num(81)]]

\* the mapping of turn mode names in WaypointBuilder.turn_mode and DroneTask.turn_mode
TurnModeMapping ==
    [name \in {"turn_at_point", "early_turn", "curve_and_stop", "curve_and_pass"} |->
        CASE name = "turn_at_point" -> "toPointAndStopWithDiscontinuityCurvature"
          [] name = "early_turn" -> "coordinateTurn"
          [] name = "curve_and_stop" -> "toPointAndStopWithContinuityCurvature"
          [] OTHER -> "toPointAndPassWithContinuityCurvature"]

\* the mapping of positioning names in DroneTask.coordinate_system
PositioningMapping ==
    [name \in {"GPS", "RTK", "Qianxun"} |->
        CASE name = "GPS" -> "GPS" [] name = "RTK" -> "RTKBaseStation" [] OTHER -> "QianXun"]

\* an exception that carries the list of what it names
Raise(e, named) == [k |-> "err", n |-> 0, s |-> e, c |-> named]

\* o.name = v: an assignment to an attribute is not validated
SetAttr(o, name, v) == Obj(o.s, [o.c EXCEPT ![name] = v])

\* DroneTask(drone_model)
NewDroneTask(drone_model) ==
    IF drone_model \notin DOMAIN DRONE_CONFIGS THEN Err("ValueError")
    ELSE [drone_model |-> drone_model,
          pilot |-> Str("Pilot"),
          flight_speed |-> DRONE_CONFIGS[drone_model].default_speed,
          flight_height |-> DRONE_CONFIGS[drone_model].default_height,
          turn_mode |-> Str("toPointAndStopWithDiscontinuityCurvature"),
          waypoints |-> << >>,
          coordinate_system |->
              NewCoordinateSystemParam(Kw(<< <<"coordinate_system", Str("WGS84")>>,
                                             <<"height_mode", Str("relativeToStartPoint")>>,
                                             <<"position_type", Str("GPS")>> >>)),
          mission_config |->
              NewMissionConfig(Kw(<<
                  <<"fly_to_wayline_mode", Str("safely")>>,
                  <<"finish_action", Str("goHome")>>,
                  <<"rclost_action", Str("goContinue")>>,
                  <<"take_off_height", DRONE_CONFIGS[drone_model].takeoff_security_height>>,
                  <<"drone_info", NewDroneInfo(Kw(<< <<"drone_model", Str(drone_model)>> >>))>>,
                  <<"payload_info",
                    NewPayloadInfo(Kw(<< <<"payload_model",
                                           DRONE_CONFIGS[drone_model].default_payload>>,
                                         <<"position", Num(0)>> >>))>> >>))]

\* the waypoint DroneTask.fly_to makes, with the builder it stores on it
FlyToWaypoint(t, latitude, longitude, height) ==
    [waypoint |-> NewWaypoint(Kw(<< <<"latitude", latitude>>, <<"longitude", longitude>>,
                                    <<"height", height>>,
                                    <<"use_global_height",
                                      IF height = None THEN Num(1) ELSE Num(0)>>,
                                    <<"waypoint_id", Num(Len(t.waypoints))>> >>)),
     actions |-> << >>]

\* WaypointBuilder.turn_mode with 'default' leaving turn_param as it is
WaypointBuilder_turn_mode_keep(w, turn_mode) ==
    CASE turn_mode = "default" ->
           [waypoint |-> SetAttr(w, "use_global_turn_param", Num(1)), raised |-> None]
      [] turn_mode \notin DOMAIN TurnModeMapping ->
           [waypoint |-> w, raised |-> Err("ValueError")]
      [] OTHER ->
           LET set(param) ==
                   IF IsErr(param)
                   THEN [waypoint |-> SetAttr(w, "use_global_turn_param", Num(0)),
                         raised |-> param]
                   ELSE [waypoint |-> SetAttr(SetAttr(w, "use_global_turn_param", Num(0)),
                                              "turn_param", param),
                         raised |-> None]
           IN  set(NewWaypointTurnParam(Kw(<<
                       <<"waypoint_turn_mode", Str(TurnModeMapping[turn_mode])>>,
                       <<"waypoint_turn_damping_dist",
                         IF turn_mode = "early_turn" THEN Tenths(2) ELSE None>> >>)))

\* WaypointBuilder.turn_mode(turn_mode) on the waypoint w: the waypoint after
\* the call and what the call raised
WaypointBuilder_turn_mode(w, turn_mode) ==
    CASE turn_mode = "default" ->
           [waypoint |-> SetAttr(SetAttr(w, "use_global_turn_param", Num(1)),
                                 "turn_param", None),
            raised |-> None]
      [] turn_mode \notin DOMAIN TurnModeMapping ->
           [waypoint |-> w, raised |-> Err("ValueError")]
      [] OTHER ->
           LET set(param) ==
                   IF IsErr(param)
                   THEN [waypoint |-> SetAttr(w, "use_global_turn_param", Num(0)),
                         raised |-> param]
                   ELSE [waypoint |-> SetAttr(SetAttr(w, "use_global_turn_param", Num(0)),
                                              "turn_param", param),
                         raised |-> None]
           IN  set(NewWaypointTurnParam(Kw(<<
                       <<"waypoint_turn_mode", Str(TurnModeMapping[turn_mode])>>,
                       <<"waypoint_turn_damping_dist",
                         IF turn_mode = "early_turn" THEN Tenths(2) ELSE None>> >>)))

\* one entry of the list of errors of _validate_configuration: the message
\* and the waypoint it names (-1: none)
ConfigError(msg, at) == [msg |-> msg, at |-> at]

\* DroneTask._validate_configuration with the list cut after its first entry
validate_configuration_first(t) ==
    LET max_speed == DRONE_CONFIGS[t.drone_model].max_speed
        too_fast(e) == /\ Truthy(t.waypoints[e.at + 1].waypoint.c["speed"])
                       /\ t.waypoints[e.at + 1].waypoint.c["speed"].n > max_speed.n
        errors ==
           (IF t.waypoints = << >>
            THEN <<ConfigError("Mission must have at least one waypoint", -1)>> ELSE << >>)
        \o (IF t.flight_speed.n > max_speed.n
            THEN <<ConfigError("Speed exceeds drone limit", -1)>> ELSE << >>)
        \o (IF t.flight_height.n < 0
            THEN <<ConfigError("Flight altitude cannot be negative", -1)>> ELSE << >>)
        \o (IF /\ t.coordinate_system.c["position_type"] = Str("RTKBaseStation")
               /\ ~DRONE_CONFIGS[t.drone_model].supports_rtk
            THEN <<ConfigError("RTK positioning not supported", -1)>> ELSE << >>)
        \o SelectSeq([i \in 1..Len(t.waypoints) |->
                         ConfigError("Waypoint speed exceeds drone limit", i - 1)],
                     too_fast)
    IN  SubSeq(errors, 1, IF errors = << >> THEN 0 ELSE 1)

\* DroneTask._validate_configuration: the list of errors, in the order found
validate_configuration(t) ==
    LET max_speed == DRONE_CONFIGS[t.drone_model].max_speed
        too_fast(e) == /\ Truthy(t.waypoints[e.at + 1].waypoint.c["speed"])
                       /\ t.waypoints[e.at + 1].waypoint.c["speed"].n > max_speed.n
        errors ==
           (IF t.waypoints = << >>
            THEN <<ConfigError("Mission must have at least one waypoint", -1)>> ELSE << >>)
        \o (IF t.flight_speed.n > max_speed.n
            THEN <<ConfigError("Speed exceeds drone limit", -1)>> ELSE << >>)
        \o (IF t.flight_height.n < 0
            THEN <<ConfigError("Flight altitude cannot be negative", -1)>> ELSE << >>)
        \o (IF /\ t.coordinate_system.c["position_type"] = Str("RTKBaseStation")
               /\ ~DRONE_CONFIGS[t.drone_model].supports_rtk
            THEN <<ConfigError("RTK positioning not supported", -1)>> ELSE << >>)
        \o SelectSeq([i \in 1..Len(t.waypoints) |->
                         ConfigError("Waypoint speed exceeds drone limit", i - 1)],
                     too_fast)
    IN  errors

\* WaypointBuilder._finalize_actions numbering every waypoint's actions from 0
finalize_actions_from_zero(e, action_id_start) ==
    IF e.actions = << >>
    THEN [entry |-> e, raised |-> None, next |-> action_id_start]
    ELSE LET numbered == [i \in 1..Len(e.actions) |->
                             SetAttr(e.actions[i], "action_id", Num(i - 1))]
             grouped(group) ==
                 IF IsErr(group)
                 THEN [entry |-> [waypoint |-> e.waypoint, actions |-> numbered],
                       raised |-> group, next |-> action_id_start]
                 ELSE [entry |-> [waypoint |-> SetAttr(e.waypoint, "action_group", group),
                                  actions |-> numbered],
                       raised |-> None, next |-> action_id_start + Len(e.actions)]
         IN  grouped(NewActionGroup(Kw(<<
                         <<"group_id", e.waypoint.c["waypoint_id"]>>,
                         <<"trigger", NewActionTrigger(Kw(<< <<"type", Str("reachPoint")>> >>))>>,
                         <<"actions", List(numbered)>> >>)))

\* WaypointBuilder._finalize_actions(action_id_start) on the waypoint entry e:
\* the ids are assigned to the builder's actions and the group is made of
\* them; the entry after the call, what the call raised and what it returns
finalize_actions(e, action_id_start) ==
    IF e.actions = << >>
    THEN [entry |-> e, raised |-> None, next |-> action_id_start]
    ELSE LET numbered == [i \in 1..Len(e.actions) |->
                             SetAttr(e.actions[i], "action_id", Num(action_id_start + i - 1))]
             grouped(group) ==
                 IF IsErr(group)
                 THEN [entry |-> [waypoint |-> e.waypoint, actions |-> numbered],
                       raised |-> group, next |-> action_id_start]
                 ELSE [entry |-> [waypoint |-> SetAttr(e.waypoint, "action_group", group),
                                  actions |-> numbered],
                       raised |-> None, next |-> action_id_start + Len(e.actions)]
         IN  grouped(NewActionGroup(Kw(<<
                         <<"group_id", e.waypoint.c["waypoint_id"]>>,
                         <<"trigger", NewActionTrigger(Kw(<< <<"type", Str("reachPoint")>> >>))>>,
                         <<"actions", List(numbered)>> >>)))

\* the first loop of DroneTask.build: waypoint.waypoint_id = index
IndexedWaypoints(ws) ==
    [i \in 1..Len(ws) |->
        [ws[i] EXCEPT !.waypoint = SetAttr(@, "waypoint_id", Num(i - 1))]]

RECURSIVE FinalizeFrom(_, _, _)
\* the second loop of DroneTask.build, from the i-th waypoint on: the
\* waypoints after it and what it raised
FinalizeFrom(ws, i, global_action_id) ==
    LET step(r) ==
            IF r.raised # None
            THEN [waypoints |-> [ws EXCEPT ![i] = r.entry], raised |-> r.raised]
            ELSE FinalizeFrom([ws EXCEPT ![i] = r.entry], i + 1, r.next)
    IN  IF i > Len(ws) THEN [waypoints |-> ws, raised |-> None]
        ELSE step(finalize_actions(ws[i], global_action_id))

\* KML(...) as DroneTask.build calls it at the time now
BuildKML(t, ws, now) ==
    NewKML(Kw(<< <<"author", t.pilot>>,
                 <<"create_time", now>>,
                 <<"update_time", now>>,
                 <<"mission_config", t.mission_config>>,
                 <<"coordinate_system_param", t.coordinate_system>>,
                 <<"global_turn_mode", t.turn_mode>>,
                 <<"global_speed", t.flight_speed>>,
                 <<"global_height", t.flight_height>>,
                 <<"waypoints", List([i \in 1..Len(ws) |-> ws[i].waypoint])>> >>))

\* ------------------------------------------------------------------------
\* The calls on a task and on the builders of its waypoints
\* ------------------------------------------------------------------------
\* the most waypoints a task is given, and the most actions its builders are given
MaxFlyTo == 2
MaxAdded == 2

RECURSIVE Added(_)
\* the number of actions the builders of the waypoints ws hold
Added(ws) == IF ws = << >> THEN 0 ELSE Len(Head(ws).actions) + Added(Tail(ws))

TaskDrones == {"M350", "M3E", "Mavic"}
TaskSpeeds == {Num(16)}
TaskHeights == {Num(-5)}
TaskPositioning == {"GPS", "RTK", "Galileo"}
TaskTurnModes == {"curve_and_pass", "sharp"}
WaypointSpeeds == {Num(16)}
WaypointTurnModes == {"default", "early_turn", "curve_and_stop", "sharp"}
BuildTimes == {Num(2000)}

InitTask ==
    /\ pc = "task"
    /\ arg = None
    /\ obj = None
    /\ wire = None
    /\ back = None
    /\ xml = None
    /\ backx = None
    /\ change = None
    /\ back2 = None
    /\ actions = << >>
    /\ result = None
    /\ manual = FALSE
    /\ task = None
    /\ outcome = None

frame == <<pc, arg, obj, wire, back, xml, backx, change, back2, actions, result, manual>>

\* the task with the i-th waypoint entry replaced
WithEntry(t, i, e) == [t EXCEPT !.waypoints[i] = e]

\* task = DroneTask(drone_model)
DroneTask_init ==
    /\ pc = "task"
    /\ task = None
    /\ \E drone_model \in TaskDrones :
          IF drone_model \notin DOMAIN DRONE_CONFIGS
          THEN outcome' = NewDroneTask(drone_model) /\ UNCHANGED task
          ELSE task' = NewDroneTask(drone_model) /\ outcome' = None
    /\ UNCHANGED frame

\* task.speed(speed)
DroneTask_speed ==
    /\ pc = "task" /\ task # None
    /\ \E speed \in TaskSpeeds : task' = [task EXCEPT !.flight_speed = speed]
    /\ outcome' = None
    /\ UNCHANGED frame

\* task.altitude(height)
DroneTask_altitude ==
    /\ pc = "task" /\ task # None
    /\ \E height \in TaskHeights : task' = [task EXCEPT !.flight_height = height]
    /\ outcome' = None
    /\ UNCHANGED frame

\* task.turn_mode(turn_mode)
DroneTask_turn_mode ==
    /\ pc = "task" /\ task # None
    /\ \E turn_mode \in TaskTurnModes :
          IF turn_mode \notin DOMAIN TurnModeMapping
          THEN outcome' = Err("ValueError") /\ UNCHANGED task
          ELSE /\ task' = [task EXCEPT !.turn_mode = Str(TurnModeMapping[turn_mode])]
               /\ outcome' = None
    /\ UNCHANGED frame

\* task.coordinate_system(positioning_type)
DroneTask_coordinate_system ==
    /\ pc = "task" /\ task # None
    /\ \E positioning_type \in TaskPositioning :
          IF positioning_type \notin DOMAIN PositioningMapping
          THEN outcome' = Err("ValueError") /\ UNCHANGED task
          ELSE /\ task' = [task EXCEPT !.coordinate_system =
                              SetAttr(@, "position_type",
                                      Str(PositioningMapping[positioning_type]))]
               /\ outcome' = None
    /\ UNCHANGED frame

\* task.fly_to(latitude, longitude)
DroneTask_fly_to ==
    /\ pc = "task" /\ task # None
    /\ Len(task.waypoints) < MaxFlyTo
    /\ IF IsErr(FlyToWaypoint(task, Tenths(375), Num(-122), None).waypoint)
       THEN outcome' = Err("ValidationError") /\ UNCHANGED task
       ELSE /\ task' = [task EXCEPT !.waypoints =
                           Append(@, FlyToWaypoint(task, Tenths(375), Num(-122), None))]
            /\ outcome' = None
    /\ UNCHANGED frame

\* the call turn_mode(turn_mode) on the builder of the i-th waypoint
WaypointBuilder_turn_mode_call(i, turn_mode) ==
    /\ pc = "task" /\ task # None
    /\ i \in 1..Len(task.waypoints)
    /\ task' = WithEntry(task, i,
                  [task.waypoints[i] EXCEPT !.waypoint =
                      WaypointBuilder_turn_mode(task.waypoints[i].waypoint, turn_mode).waypoint])
    /\ outcome' = WaypointBuilder_turn_mode(task.waypoints[i].waypoint, turn_mode).raised
    /\ UNCHANGED frame

WaypointBuilder_turn_mode_any ==
    \E i \in 1..MaxFlyTo, turn_mode \in WaypointTurnModes :
        WaypointBuilder_turn_mode_call(i, turn_mode)

\* the call speed(speed) on the builder of a waypoint
WaypointBuilder_speed ==
    /\ pc = "task" /\ task # None
    /\ \E i \in 1..Len(task.waypoints), speed \in WaypointSpeeds :
          task' = WithEntry(task, i,
                     [task.waypoints[i] EXCEPT !.waypoint =
                         SetAttr(SetAttr(@, "speed", speed), "use_global_speed", Num(0))])
    /\ outcome' = None
    /\ UNCHANGED frame

\* the builder of the i-th waypoint is given the action it has just constructed
AddBuilderAction(i, action) ==
    IF IsErr(action) THEN outcome' = action /\ UNCHANGED task
    ELSE /\ task' = WithEntry(task, i,
                       [task.waypoints[i] EXCEPT !.actions = Append(@, action)])
         /\ outcome' = None

\* the call take_photo() on the builder of a waypoint
WaypointBuilder_take_photo ==
    /\ pc = "task" /\ task # None
    /\ \E i \in 1..Len(task.waypoints) :
          /\ Added(task.waypoints) < MaxAdded
          /\ AddBuilderAction(i, NewAction("TakePhotoAction",
                                           Kw(<< <<"action_id", Num(0)>>,
                                                 <<"file_suffix", Str("")>> >>)))
    /\ UNCHANGED frame

\* the call hover(duration) on the builder of a waypoint
WaypointBuilder_hover ==
    /\ pc = "task" /\ task # None
    /\ \E i \in 1..Len(task.waypoints) :
          /\ Added(task.waypoints) < MaxAdded
          /\ AddBuilderAction(i, NewAction("HoverAction",
                                           Kw(<< <<"action_id", Num(0)>>,
                                                 <<"hover_time", Num(2)>> >>)))
    /\ UNCHANGED frame

\* the end of DroneTask.build: the waypoints keep what the loops gave them,
\* and the document is made unless a loop raised
BuildDocument(f) ==
    /\ task' = [task EXCEPT !.waypoints = f.waypoints]
    /\ IF f.raised # None THEN outcome' = f.raised
       ELSE \E now \in BuildTimes : outcome' = BuildKML(task, f.waypoints, now)

\* task.build(): the configuration is validated; then the waypoints get their
\* indices, the actions their ids and the waypoints their groups; then the
\* document is made
DroneTask_build ==
    /\ pc = "task" /\ task # None
    /\ IF validate_configuration(task) # << >>
       THEN /\ outcome' = Raise("task_builder.ValidationError", validate_configuration(task))
            /\ UNCHANGED task
       ELSE BuildDocument(FinalizeFrom(IndexedWaypoints(task.waypoints), 1, 0))
    /\ UNCHANGED frame

NextTask ==
    \/ DroneTask_init
    \/ DroneTask_speed
    \/ DroneTask_altitude
    \/ DroneTask_turn_mode
    \/ DroneTask_coordinate_system
    \/ DroneTask_fly_to
    \/ WaypointBuilder_turn_mode_any
    \/ WaypointBuilder_speed
    \/ WaypointBuilder_take_photo
    \/ WaypointBuilder_hover
    \/ DroneTask_build

SpecTask == InitTask /\ [][NextTask]_vars

\* ------------------------------------------------------------------------
\* Properties of actions
\* ------------------------------------------------------------------------
IsAction(o) == o.k = "obj" /\ o.s \in ActionClasses
\* the action is of the kind its class is registered under
OfItsKind(o) ==
    /\ IsAction(o)
    /\ o.c["action_type"].s \in DOMAIN ACTION_REGISTRY
    /\ ACTION_REGISTRY[o.c["action_type"].s] = o.s

\* C1: for an action a of any of the 13 kinds, Action.from_dict(a.to_dict())
\* is an instance of the same class with the same action_id, the same
\* action_type and the same value for every parameter field, a field that was
\* None being None again.
C1_ActionRoundTrip ==
    (pc = "parsed" /\ OfItsKind(obj)) =>
        /\ back.k = "obj"
        /\ back.s = obj.s
        /\ DOMAIN back.c = DOMAIN obj.c
        /\ \A name \in DOMAIN obj.c : back.c[name] = obj.c[name]

\* a FocusAction with focus_x = 0 (not its default) has gone through the round trip
C1_Witness ==
    /\ pc = "parsed"
    /\ obj.s = "FocusAction"
    /\ obj.c["focus_x"] = Num(0)
    /\ back.k = "obj"
    /\ back.c["focus_x"] = Num(0)

HeaderKeys == {Wpml("actionId"), Wpml("actionActuatorFunc")}
ParamKey == Wpml("actionActuatorFuncParam")

\* the parameter block that C5 describes for the action o
ParamBlockOf(o) ==
    LET fs == OwnFields(o.s)
        set == {i \in 1..Len(fs) : o.c[fs[i].name] # None}
    IN  /\ wire.c[ParamKey].k = "dict"
        /\ DOMAIN wire.c[ParamKey].c = {Wpml(fs[i].alias) : i \in set}
        /\ \A i \in set : wire.c[ParamKey].c[Wpml(fs[i].alias)] = o.c[fs[i].name]

\* C5: to_dict of an action has exactly three top-level entries: the id, the
\* kind tag and the parameter block; the block holds exactly the kind-specific
\* fields that are not None, under their wire names, and neither id nor tag.
\* For TakePhoto(id 1, position 1, suffix "test", lens "zoom") the block is
\* exactly payloadPositionIndex=1, fileSuffix="test", payloadLensIndex="zoom",
\* useGlobalPayloadLensIndex=0.
C5_ToDictShape ==
    (pc \in {"wire", "parsed"} /\ obj.k = "obj" /\ obj.s \in ActionClasses \cup {"Action"}) =>
        /\ wire.k = "dict"
        /\ DOMAIN wire.c = HeaderKeys \cup {ParamKey}
        /\ wire.c[Wpml("actionId")] = obj.c["action_id"]
        /\ wire.c[Wpml("actionActuatorFunc")] = obj.c["action_type"]
        /\ ParamBlockOf(obj)
        /\ DOMAIN wire.c[ParamKey].c \cap HeaderKeys = {}
        /\ arg = TakePhotoScenario =>
              /\ DOMAIN wire.c[ParamKey].c =
                    {Wpml("payloadPositionIndex"), Wpml("fileSuffix"),
                     Wpml("payloadLensIndex"), Wpml("useGlobalPayloadLensIndex")}
              /\ wire.c[ParamKey].c[Wpml("payloadPositionIndex")] = Num(1)
              /\ wire.c[ParamKey].c[Wpml("fileSuffix")] = Str("test")
              /\ wire.c[ParamKey].c[Wpml("payloadLensIndex")] = Str("zoom")
              /\ wire.c[ParamKey].c[Wpml("useGlobalPayloadLensIndex")] = Num(0)

\* the TakePhoto scenario has been serialized
C5_Witness ==
    /\ pc = "wire"
    /\ arg = TakePhotoScenario
    /\ wire.c[Wpml("actionId")] = Num(1)

\* C6: the registry maps each of the 13 kinds to one class, no class stands
\* under two kinds, and the class registered for a kind, constructed without a
\* kind tag, yields an action of that kind.
C6_Registry ==
    /\ DOMAIN ACTION_REGISTRY = ActionType
    /\ Cardinality(DOMAIN ACTION_REGISTRY) = 13
    /\ \A k1, k2 \in DOMAIN ACTION_REGISTRY :
          ACTION_REGISTRY[k1] = ACTION_REGISTRY[k2] => k1 = k2
    /\ \A kind \in DOMAIN ACTION_REGISTRY :
          (/\ pc # "args"
           /\ arg.cls = ACTION_REGISTRY[kind]
           /\ "action_type" \notin DOMAIN arg.kw
           /\ ~IsErr(obj)) =>
              obj.s = arg.cls /\ obj.c["action_type"] = Str(kind)

\* RecordPointCloudAction() was constructed and is tagged recordPointCloud
C6_Witness ==
    /\ pc = "built"
    /\ arg.cls = "RecordPointCloudAction"
    /\ "action_type" \notin DOMAIN arg.kw
    /\ obj.k = "obj"
    /\ obj.c["action_type"] = Str("recordPointCloud")

\* C7: no action can be constructed whose action_type differs from the kind
\* its concrete class is registered under.
C7_KindAgrees ==
    (pc # "args" /\ IsAction(obj)) => OfItsKind(obj)

\* ------------------------------------------------------------------------
\* Properties of action groups
\* ------------------------------------------------------------------------
\* the group p has the ids, mode, trigger and action sequence of the group g
SameGroup(g, p) ==
    /\ p.k = "obj"
    /\ p.s = "ActionGroup"
    /\ \A name \in {"group_id", "start_waypoint_id", "end_waypoint_id", "execution_mode"} :
          p.c[name] = g.c[name]
    /\ p.c["trigger"].c["type"] = g.c["trigger"].c["type"]
    /\ p.c["trigger"].c["param"] = g.c["trigger"].c["param"]
    /\ Len(p.c["actions"].c) = Len(g.c["actions"].c)
    /\ \A i \in 1..Len(g.c["actions"].c) :
          /\ p.c["actions"].c[i].s = g.c["actions"].c[i].s
          /\ p.c["actions"].c[i].c["action_id"] = g.c["actions"].c[i].c["action_id"]
          /\ p.c["actions"].c[i].c["action_type"] = g.c["actions"].c[i].c["action_type"]

\* C2: for a valid group g with zero, one or several actions,
\* ActionGroup.from_xml(g.to_xml()) succeeds and returns a group with the same
\* ids, execution mode, trigger type and param and the same sequence of
\* actions (length, and class, id and kind at each position).
C2_GroupXmlRoundTrip ==
    (pc = "xmlparsed" /\ obj.s = "ActionGroup") => SameGroup(obj, backx)

\* the indices a constructor call of ActionGroup asks for
GivenGroupId == IF "group_id" \in DOMAIN arg.kw THEN arg.kw["group_id"].n ELSE 0
FilledStart ==
    IF "start_waypoint_id" \in DOMAIN arg.kw THEN arg.kw["start_waypoint_id"].n
    ELSE GivenGroupId
FilledEnd ==
    IF "end_waypoint_id" \in DOMAIN arg.kw THEN arg.kw["end_waypoint_id"].n
    ELSE FilledStart

\* C4: constructing an ActionGroup (whose group_id passes its own field check)
\* fills an unset start index with group_id and an unset end index with the
\* start index, and then succeeds exactly when start >= group_id and
\* end >= start; group_id = 5 alone gives start = end = 5, and group_id = 1,
\* start = 10, end = 8 is rejected.
C4_StartEnd ==
    (pc # "args" /\ arg.cls = "ActionGroup" /\ GivenGroupId >= 0) =>
        /\ ~IsErr(obj) <=> (FilledStart >= GivenGroupId /\ FilledEnd >= FilledStart)
        /\ ~IsErr(obj) =>
              /\ obj.c["group_id"] = Tenths(GivenGroupId)
              /\ obj.c["start_waypoint_id"] = Tenths(FilledStart)
              /\ obj.c["end_waypoint_id"] = Tenths(FilledEnd)
        /\ arg.kw = Kw(<< <<"group_id", Num(5)>> >>) =>
              /\ ~IsErr(obj)
              /\ obj.c["start_waypoint_id"] = Num(5)
              /\ obj.c["end_waypoint_id"] = Num(5)
        /\ arg.kw = Kw(<< <<"group_id", Num(1)>>, <<"start_waypoint_id", Num(10)>>,
                          <<"end_waypoint_id", Num(8)>> >>) => IsErr(obj)

\* ActionGroup(group_id=1, start_waypoint_id=10, end_waypoint_id=8) was rejected
C4_Witness ==
    /\ pc = "built"
    /\ arg.kw = Kw(<< <<"group_id", Num(1)>>, <<"start_waypoint_id", Num(10)>>,
                      <<"end_waypoint_id", Num(8)>> >>)
    /\ IsErr(obj)

\* C3: starting from a group with no actions, after any sequence of
\* add_action (auto_id=True), insert_action, remove_action, remove_action_at,
\* move_action (auto_renumber=True) and clear_actions, failing calls included,
\* the action ids in list order are exactly 1, 2, ..., N.
C3_IdsContiguous ==
    ~manual => \A i \in 1..Len(actions) : actions[i].c["action_id"] = Num(i)

\* a removal by id succeeded and left one action, the RotateYawAction that
\* came in with id 3 and was not the first one added
C3_Witness ==
    /\ ~manual
    /\ result = Bool(TRUE)
    /\ Len(actions) = 1
    /\ actions[1].s = "RotateYawAction"

\* ------------------------------------------------------------------------
\* Properties of from_dict on mappings that are not what to_dict wrote
\* ------------------------------------------------------------------------
\* C8: parsing never replaces an unrecognized enum token by a default: when
\* an enum-valued wire field (action kind tag, trigger type, heading or turn
\* mode, payload model value, RC-lost action) holds a token outside the
\* vocabulary of its enum, from_dict raises an error.
C8_BadTokenRaises ==
    (pc = "reparsed" /\ change.kind = "token") => IsErr(back2)

\* C9: for every record type, from_dict of an input that holds, besides valid
\* fields, an extra key of no known wire name succeeds and returns the same
\* record as for the input without that key.
C9_ExtraKeyIgnored ==
    (pc = "reparsed" /\ change.kind = "extra" /\ ~IsErr(back)) => back2 = back

\* C10: for every record type, from_dict of a mapping whose keys carry no
\* "wpml:" prefix succeeds and returns the same record as from_dict of the
\* mapping with the prefixed keys.
C10_PrefixOptional ==
    (pc = "reparsed" /\ change.kind = "bare" /\ ~IsErr(back)) => back2 = back

\* the action of the tagged kind with the given id and every parameter field
\* at its default
IsDefaultAction(o, kind, id) ==
    /\ o.k = "obj"
    /\ o.s = ACTION_REGISTRY[kind]
    /\ o.c["action_id"] = id
    /\ o.c["action_type"] = Str(kind)
    /\ \A i \in 1..Len(OwnFields(o.s)) :
          o.c[OwnFields(o.s)[i].name] = OwnFields(o.s)[i].def

\* C11: parsing an action whose parameter block is absent, an empty mapping or
\* None succeeds through Action.from_dict and through Action.from_xml, and
\* gives the action of the tagged kind with the given id and the default of
\* every parameter field.
C11_EmptyBlockParses ==
    (/\ pc \in {"reparsed", "xmlreparsed"}
     /\ IsAction(obj)
     /\ change.kind \in {"drop", "block"}) =>
        IsDefaultAction(back2, obj.c["action_type"].s, obj.c["action_id"])

\* C12: parsing a group from input that gives actionGroupId = g and neither
\* index key returns, through ActionGroup.from_dict and through
\* ActionGroup.from_xml, a group whose start_waypoint_id and end_waypoint_id
\* are g. (Groups of exactly one action are left to C2.)
C12_IndicesDefault ==
    (/\ pc \in {"reparsed", "xmlreparsed"}
     /\ obj.k = "obj" /\ obj.s = "ActionGroup"
     /\ Len(obj.c["actions"].c) # 1
     /\ change.kind = "drop") =>
        /\ back2.k = "obj"
        /\ back2.c["group_id"] = obj.c["group_id"]
        /\ back2.c["start_waypoint_id"] = obj.c["group_id"]
        /\ back2.c["end_waypoint_id"] = obj.c["group_id"]

\* the keywords given for the scalar fields fs are each valid for their field
FieldwiseValid(fs, kw) ==
    \A i \in 1..Len(fs) :
        fs[i].name \in DOMAIN kw => ~IsErr(ValidateField(fs[i], kw[fs[i].name]))

\* the value a constructor call gives a field: the keyword, else the default
Given(fs, kw, name) ==
    IF name \in DOMAIN kw THEN kw[name] ELSE FieldNamed(fs, name).def

\* the mode asks for a value that is not there
LacksHeadingValue(mode, angle, poi) ==
    \/ mode = Str("smoothTransition") /\ angle = None
    \/ mode = Str("towardPOI") /\ poi = None

\* the heading parameters held by the records of the state
HeadingParamsOf(o) ==
    IF o.k # "obj" THEN {}
    ELSE CASE o.s = "WaypointHeadingParam" -> {o}
           [] o.s = "Waypoint" -> {o.c["heading_param"]} \ {None}
           [] o.s = "KML" -> {o.c["global_waypoint_heading_param"]}
           [] OTHER -> {}

\* C13: constructing a heading parameter fails when the mode is
\* smoothTransition and no angle is given and when the mode is towardPOI and
\* no point of interest is given; in every other case (each given value
\* being valid for its field) it succeeds. No constructed or parsed heading
\* parameter has mode smoothTransition without an angle or mode towardPOI
\* without a point of interest.
C13_HeadingRequirements ==
    /\ (/\ pc = "built" /\ arg.cls = "WaypointHeadingParam"
        /\ FieldwiseValid(WaypointHeadingParamFields, arg.kw)) =>
           (IsErr(obj) <=>
               LacksHeadingValue(
                   Given(WaypointHeadingParamFields, arg.kw, "waypoint_heading_mode"),
                   Given(WaypointHeadingParamFields, arg.kw, "waypoint_heading_angle"),
                   IF "waypoint_poi_point" \in DOMAIN arg.kw
                   THEN arg.kw["waypoint_poi_point"] ELSE None))
    /\ \A h \in HeadingParamsOf(obj) \cup HeadingParamsOf(back) \cup HeadingParamsOf(back2) :
          ~LacksHeadingValue(h.c["waypoint_heading_mode"], h.c["waypoint_heading_angle"],
                             h.c["waypoint_poi_point"])

\* a towardPOI heading parameter without point of interest has been refused
C13_Witness ==
    /\ pc = "built" /\ arg.cls = "WaypointHeadingParam"
    /\ "waypoint_heading_mode" \in DOMAIN arg.kw
    /\ arg.kw["waypoint_heading_mode"] = Str("towardPOI")
    /\ "waypoint_poi_point" \notin DOMAIN arg.kw
    /\ IsErr(obj)

C15_DroneInfoRoundTrip ==
    (pc = "parsed" /\ obj.k = "obj" /\ obj.s = "DroneInfo") =>
        /\ back.k = "obj"
        /\ back.s = "DroneInfo"
        /\ back.c["drone_model"] = obj.c["drone_model"]

\* the drone information of a mission configuration is read back by
\* DroneInfo.from_dict (C15 is about the models for which it is not)
DroneInfoReadable(o) ==
    \/ o.c["drone_info"] = None
    \/ MODEL_TO_VAL[o.c["drone_info"].c["drone_model"].s][2] # Num(0)

KMLRootNames == {"author", "create_time", "update_time", "mission_config"}
KMLAllFields == KMLFields \o KMLModels \o KMLWaypoints

\* the wire key of a field of KML
KMLWireKey(fd) == IF fd.name = "waypoints" THEN Bare("Placemark") ELSE Wpml(fd.alias)

\* the wire keys of the fields of o among names that are set
KMLKeysSet(o, names) ==
    {KMLWireKey(KMLAllFields[i]) : i \in {j \in 1..Len(KMLAllFields) :
        /\ KMLAllFields[j].name \in names
        /\ o.c[KMLAllFields[j].name] # None}}

C18_EmptyGroupWire ==
    (wire # None /\ obj.k = "obj" /\ obj.s = "ActionGroup") =>
        /\ Wpml("action") \in DOMAIN wire.c
        /\ wire.c[Wpml("action")].k = "list"
        /\ Len(wire.c[Wpml("action")].c) = Len(obj.c["actions"].c)
        /\ Wpml("actionTrigger") \in DOMAIN wire.c
        /\ wire.c[Wpml("actionTrigger")] = ActionTrigger_to_dict(obj.c["trigger"])
        /\ (back # None /\ Len(obj.c["actions"].c) = 0) =>
              /\ back.k = "obj" /\ back.s = "ActionGroup"
              /\ back.c["actions"] = List(<< >>)
              /\ \A name \in {"group_id", "start_waypoint_id", "end_waypoint_id", "trigger"} :
                    back.c[name] = obj.c[name]

\* a group with no actions, its own ids and a trigger with a parameter has been
\* written and read back
C18_Witness ==
    /\ pc = "parsed" /\ obj.k = "obj" /\ obj.s = "ActionGroup"
    /\ obj.c["actions"] = List(<< >>)
    /\ obj.c["group_id"] = Num(5) /\ obj.c["start_waypoint_id"] = Num(10)
    /\ obj.c["trigger"].c["param"] # None
    /\ wire.c[Wpml("action")] = List(<< >>)
    /\ back.k = "obj" /\ back.c["actions"] = List(<< >>)

\* the parts of the coordinates text of a <Point> element
CoordinatesOf(point) == Split(point.c[Bare("coordinates")])

\* latitude and longitude are inside the ranges of the fields
InRange(latitude, longitude) ==
    /\ Dec(-90, 0) <= latitude.n /\ latitude.n <= Dec(90, 0)
    /\ Dec(-180, 0) <= longitude.n /\ longitude.n <= Dec(180, 0)

\* from_string(p.to_string()) is p
PoiTextRoundTrip(p) == WaypointPoiPoint_from_string(WaypointPoiPoint_to_string(p)) = p

\* C19: the Point text of a waypoint is written longitude then latitude and
\* Waypoint.from_dict reads its first part as longitude and its second as
\* latitude; the text of a point of interest is written latitude, longitude,
\* altitude and WaypointPoiPoint.from_string reads the parts in that order, so
\* from_string(p.to_string()) = p; from_string fails on every text that does
\* not have exactly three comma-separated parts.
C19_CoordinateOrder ==
    /\ (wire # None /\ obj.k = "obj" /\ obj.s = "Waypoint") =>
          /\ CoordinatesOf(wire.c[Bare("Point")]) =
                <<FloatText(obj.c["longitude"]), FloatText(obj.c["latitude"])>>
          /\ back # None =>
                /\ back.k = "obj"
                /\ back.c["longitude"] = obj.c["longitude"]
                /\ back.c["latitude"] = obj.c["latitude"]
    /\ (pc = "reparsed" /\ obj.s = "Waypoint" /\ change.kind = "text") =>
          IF InRange(PyFloat(CoordinatesOf(change.token)[2]),
                     PyFloat(CoordinatesOf(change.token)[1]))
          THEN /\ back2.k = "obj"
               /\ back2.c["longitude"] = PyFloat(CoordinatesOf(change.token)[1])
               /\ back2.c["latitude"] = PyFloat(CoordinatesOf(change.token)[2])
          ELSE IsErr(back2)
    /\ (wire # None /\ obj.k = "obj" /\ obj.s = "WaypointHeadingParam"
           /\ obj.c["waypoint_poi_point"] # None) =>
          /\ Split(wire.c[Wpml("waypointPoiPoint")]) =
                <<FloatText(obj.c["waypoint_poi_point"].c["latitude"]),
                  FloatText(obj.c["waypoint_poi_point"].c["longitude"]),
                  FloatText(obj.c["waypoint_poi_point"].c["altitude"])>>
          /\ PoiTextRoundTrip(obj.c["waypoint_poi_point"])
          /\ back # None =>
                /\ back.k = "obj"
                /\ back.c["waypoint_poi_point"] = obj.c["waypoint_poi_point"]
    /\ (pc = "reparsed" /\ obj.s = "WaypointHeadingParam" /\ change.kind = "text") =>
          IF Len(Split(change.token)) # 3
          THEN /\ IsErr(WaypointPoiPoint_from_string(change.token))
               /\ IsErr(back2)
          ELSE IF InRange(PyFloat(Split(change.token)[1]), PyFloat(Split(change.token)[2]))
          THEN /\ back2.k = "obj"
               /\ back2.c["waypoint_poi_point"].c["latitude"] = PyFloat(Split(change.token)[1])
               /\ back2.c["waypoint_poi_point"].c["longitude"] = PyFloat(Split(change.token)[2])
               /\ back2.c["waypoint_poi_point"].c["altitude"] = PyFloat(Split(change.token)[3])
               /\ PoiTextRoundTrip(back2.c["waypoint_poi_point"])
          ELSE IsErr(back2)

\* a text of three parts whose first two differ has been read as a point of
\* interest
C19_Witness ==
    /\ pc = "reparsed" /\ obj.s = "WaypointHeadingParam" /\ change.kind = "text"
    /\ Len(Split(change.token)) = 3
    /\ Split(change.token)[1] # Split(change.token)[2]
    /\ back2.k = "obj"
    /\ back2.c["waypoint_poi_point"].c["latitude"] = Tenths(Dec(37, 5))
    /\ back2.c["waypoint_poi_point"].c["longitude"] = Num(-122)

\* C20: for every valid Point p, Point.from_dict(p.to_dict()) is a point with
\* the latitude and the longitude of p.
C20_PointRoundTrip ==
    (pc = "parsed" /\ obj.k = "obj" /\ obj.s = "Point") =>
        /\ back.k = "obj" /\ back.s = "Point"
        /\ back.c["latitude"] = obj.c["latitude"]
        /\ back.c["longitude"] = obj.c["longitude"]

\* every keyword of the call passes the check of its own field, no required
\* field is left out, and the indices of a group are in order
OtherwiseValid(cls, kw) ==
    /\ FieldwiseValid(ScalarFields(cls), kw)
    /\ \A name \in FieldNames(ScalarFields(cls)) \ DOMAIN kw :
          FieldNamed(ScalarFields(cls), name).def # Missing
    /\ cls = "ActionGroup" => GivenGroupId <= FilledStart /\ FilledStart <= FilledEnd

\* the ranged integer field of the class of obj that the change is about
ChangedField == FieldAliased(ScalarFields(obj.s), change.key[2])

\* C21: for every integer field with a declared range (action_id and
\* waypoint_id in 0..65535, payload_position in 0..2, every enable and
\* use-global flag in {0,1}, template_id = 0, group_id >= 0) construction
\* succeeds with the value at each bound and fails with the value one below
\* the lower or one above the upper bound, and from_dict applies the same
\* checks to the record it parses.
C21_IntegerRanges ==
    /\ pc # "args" =>
          \A fd \in Ranged(ScalarFields(arg.cls)) :
              (fd.name \in DOMAIN arg.kw /\ arg.kw[fd.name] \in EdgeValues(fd)) =>
                  IF InBounds(fd, arg.kw[fd.name].n)
                  THEN OtherwiseValid(arg.cls, arg.kw) =>
                           obj.k = "obj" /\ obj.c[fd.name] = arg.kw[fd.name]
                  ELSE IsErr(obj)
    /\ (pc = "reparsed" /\ change.kind \in {"range", "rangein"}
           /\ (IsAction(obj) => OfItsKind(obj))) =>
          IF InBounds(ChangedField, change.token.n)
          THEN back2.k = "obj" /\ back2.c[ChangedField.name] = change.token
          ELSE IsErr(back2)

\* a waypoint has been constructed with waypoint_id = 65535, and a mapping
\* with the index 65536 has been refused by Waypoint.from_dict
C21_Witness ==
    /\ arg.cls = "Waypoint"
    /\ "waypoint_id" \in DOMAIN arg.kw /\ arg.kw["waypoint_id"] = Num(65535)
    /\ obj.k = "obj" /\ obj.c["waypoint_id"] = Num(65535)
    /\ pc = "reparsed" /\ change.kind = "range"
    /\ change.key = Wpml("index") /\ change.token = Num(65536)
    /\ IsErr(back2)

\* ------------------------------------------------------------------------
\* Properties of single calls of the list operations
\* ------------------------------------------------------------------------
\* C25: insert_action with an index below 0 or above the number of actions
\* raises ValueError; remove_action_at with an index outside 0..N-1 and
\* move_action with either index outside 0..N-1 raise IndexError;
\* remove_action with an id that no action has returns False; in each of these
\* cases the action list is the same after the call as before it.
C25_RefusedCallsKeepList ==
    [][/\ \A index \in Indices, action \in SampleActions, auto_renumber \in BOOLEAN :
            ((index < 0 \/ index > Len(actions))
               /\ insert_action_call(index, action, auto_renumber)) =>
                result' = Err("ValueError") /\ actions' = actions
       /\ \A index \in Indices, auto_renumber \in BOOLEAN :
            ((index < 0 \/ index > Len(actions) - 1)
               /\ remove_action_at_call(index, auto_renumber)) =>
                result' = Err("IndexError") /\ actions' = actions
       /\ \A from_index \in Indices, to_index \in Indices, auto_renumber \in BOOLEAN :
            (({from_index, to_index} \ (0..(Len(actions) - 1)) # {})
               /\ move_action_call(from_index, to_index, auto_renumber)) =>
                result' = Err("IndexError") /\ actions' = actions
       /\ \A action_id \in Ids, auto_renumber \in BOOLEAN :
            ((\A i \in 1..Len(actions) : actions[i].c["action_id"] # Num(action_id))
               /\ remove_action_call(action_id, auto_renumber)) =>
                result' = Bool(FALSE) /\ actions' = actions]_vars

\* a call on a group of two actions has been refused with IndexError
C25_Witness ==
    /\ pc = "ops"
    /\ result = Err("IndexError")
    /\ Len(actions) = 2

\* b is the action a, or what renumbering has made of it: an action of the
\* same class
SameAction(a, b, renumbered) == IF renumbered THEN b.s = a.s ELSE b = a

\* the lists p and q hold the same actions in the same order
SameOrder(p, q, renumbered) ==
    /\ Len(p) = Len(q)
    /\ \A i \in 1..Len(p) : SameAction(p[i], q[i], renumbered)

\* C26: after move_action(from_index, to_index) with both indices in 0..N-1
\* the action that stood at from_index stands at to_index, the other actions
\* keep their relative order and the number of actions is unchanged; after
\* insert_action(i, a) with 0 <= i <= N the inserted action stands at i and
\* the N earlier actions keep their relative order.
C26_MoveAndInsertOrder ==
    [][/\ \A from_index \in Indices, to_index \in Indices, auto_renumber \in BOOLEAN :
            ({from_index, to_index} \subseteq 0..(Len(actions) - 1)
               /\ result' = None /\ manual' = (manual \/ ~auto_renumber)
               /\ move_action_call(from_index, to_index, auto_renumber)) =>
                /\ Len(actions') = Len(actions)
                /\ SameAction(actions[from_index + 1], actions'[to_index + 1], auto_renumber)
                /\ SameOrder(ListPop(actions, from_index), ListPop(actions', to_index),
                             auto_renumber)
       /\ \A index \in Indices, action \in SampleActions, auto_renumber \in BOOLEAN :
            (0 <= index /\ index <= Len(actions)
               /\ result' = None /\ manual' = (manual \/ ~auto_renumber)
               /\ insert_action_call(index, action, auto_renumber)) =>
                /\ Len(actions') = Len(actions) + 1
                /\ SameAction(action, actions'[index + 1], auto_renumber)
                /\ SameOrder(actions, ListPop(actions', index), auto_renumber)]_vars

\* three actions of three classes stand in another order than that of their ids
C26_Witness ==
    /\ pc = "ops"
    /\ Len(actions) = 3
    /\ manual
    /\ {actions[i].s : i \in 1..3} = {"TakePhotoAction", "HoverAction", "RotateYawAction"}
    /\ actions[1].c["action_id"].n > actions[3].c["action_id"].n

\* the action b is the action a but for its action_id
SaveForId(a, b) ==
    /\ b.k = "obj" /\ b.s = a.s
    /\ DOMAIN b.c = DOMAIN a.c
    /\ \A name \in DOMAIN a.c \ {"action_id"} : b.c[name] = a.c[name]

\* C29: add_action with auto_id=True and every renumbering done by
\* insert_action, remove_action, remove_action_at and move_action change
\* nothing but action_id: each action stored in the group keeps the class, the
\* kind tag and the value of every parameter field of the action that the
\* caller passed in.
C29_OnlyIdChanges ==
    pc = "ops" => \A i \in 1..Len(actions) : \E a \in SampleActions : SaveForId(a, actions[i])

\* ActionGroup.next_action_id: one more than the number of actions
next_action_id(q) == Len(q) + 1

\* the ids the actions of the list have
IdsOf(q) == {q[i].c["action_id"] : i \in 1..Len(q)}

\* C30: at every moment, whatever operations came before (add_action with
\* auto_id=False, removals and moves with auto_renumber=False included),
\* next_action_id is an id no action of the group has; it is also the id
\* add_action with auto_id=True gives the new action, which therefore
\* differs from the id of every action already there.
C30_NextIdIsFree ==
    pc = "ops" => Num(next_action_id(actions)) \notin IdsOf(actions)

\* the constraints the error of ActionGroup(**kw) names: pydantic checks every
\* field and lists each one that failed; validate_start_end runs only when no
\* field failed, and raises at the first comparison that fails
ActionGroup_reported(kw) ==
    LET names == {ActionGroupFields[i].name : i \in 1..Len(ActionGroupFields)}
        group == IF "group_id" \in DOMAIN kw THEN kw["group_id"] ELSE Num(0)
        start == IF "start_waypoint_id" \in DOMAIN kw THEN kw["start_waypoint_id"] ELSE group
        end == IF "end_waypoint_id" \in DOMAIN kw THEN kw["end_waypoint_id"] ELSE start
        fields == {name \in names \cap DOMAIN kw :
                      IsErr(ValidateField(FieldNamed(ActionGroupFields, name), kw[name]))}
                  \cup (IF "actions" \in DOMAIN kw /\ IsErr(ValidateActions(kw["actions"]))
                        THEN {"actions"} ELSE {})
                  \cup (IF "trigger" \in DOMAIN kw /\ IsErr(ValidateTrigger(kw["trigger"]))
                        THEN {"trigger"} ELSE {})
    IN  CASE fields # {} -> fields
          [] start.n < group.n -> {"start_waypoint_id >= group_id"}
          [] end.n < start.n -> {"end_waypoint_id >= start_waypoint_id"}
          [] OTHER -> {}

\* the constraints of ActionGroup the keywords kw violate
ActionGroup_violated(kw) ==
    (IF GivenGroupId < 0 THEN {"group_id"} ELSE {})
    \cup (IF "actions" \in DOMAIN kw /\ IsErr(ValidateActions(kw["actions"]))
          THEN {"actions"} ELSE {})
    \cup (IF "trigger" \in DOMAIN kw /\ IsErr(ValidateTrigger(kw["trigger"]))
          THEN {"trigger"} ELSE {})
    \cup (IF FilledStart < GivenGroupId THEN {"start_waypoint_id >= group_id"} ELSE {})
    \cup (IF FilledEnd < FilledStart THEN {"end_waypoint_id >= start_waypoint_id"} ELSE {})

\* C27: when the keywords of one ActionGroup violate several constraints at
\* once, the single error of the failed construction names every violated
\* constraint, not only the first one found.
C27_AllViolationsReported ==
    (pc # "args" /\ arg.cls = "ActionGroup" /\ IsErr(obj)) =>
        ActionGroup_reported(arg.kw) = ActionGroup_violated(arg.kw)

\* C28: no from_dict changes the mapping it is given: after the call the
\* mapping holds the same keys and values as before (for KML its 'Folder'
\* entry included), and a second from_dict on the same mapping returns a
\* record equal to the first.
C28_FromDictIsPure ==
    pc = "parsedtwice" => change.token = wire /\ back2 = back

\* build returned a document
Built == outcome.k = "obj" /\ outcome.s = "KML"

RECURSIVE DocumentActionIds(_)
\* the action ids of the waypoints ws of a document, read waypoint by waypoint
\* and within a waypoint in the order of its group
DocumentActionIds(ws) ==
    IF ws = << >> THEN << >>
    ELSE (IF Head(ws).c["action_group"] = None THEN << >>
          ELSE [j \in 1..Len(Head(ws).c["action_group"].c["actions"].c) |->
                   Head(ws).c["action_group"].c["actions"].c[j].c["action_id"]])
         \o DocumentActionIds(Tail(ws))

\* C22: after a successful DroneTask.build() the i-th waypoint added by fly_to
\* (from 0) has waypoint_id i, and the action ids, read waypoint by waypoint
\* and within a waypoint in the order the actions were added, are exactly
\* 0, 1, ..., M-1 for the M actions of the mission; build() called again, with
\* or without waypoints and actions added in between, gives the same.
C22_BuildNumbers ==
    (pc = "task" /\ Built) =>
        /\ Len(outcome.c["waypoints"].c) = Len(task.waypoints)
        /\ \A i \in 1..Len(task.waypoints) :
              /\ outcome.c["waypoints"].c[i] = task.waypoints[i].waypoint
              /\ outcome.c["waypoints"].c[i].c["waypoint_id"] = Num(i - 1)
              /\ task.waypoints[i].actions # << >> =>
                    outcome.c["waypoints"].c[i].c["action_group"].c["actions"].c
                        = task.waypoints[i].actions
              /\ task.waypoints[i].actions = << >> =>
                    outcome.c["waypoints"].c[i].c["action_group"] = None
        /\ DocumentActionIds(outcome.c["waypoints"].c)
               = [j \in 1..Added(task.waypoints) |-> Num(j - 1)]

\* a document of two waypoints with one action each, numbered 0 and 1
C22_Witness ==
    /\ pc = "task" /\ Built
    /\ Len(task.waypoints) = 2
    /\ Len(task.waypoints[1].actions) = 1 /\ Len(task.waypoints[2].actions) = 1
    /\ DocumentActionIds(outcome.c["waypoints"].c) = <<Num(0), Num(1)>>

\* the conditions of the task t that build refuses, each as the error that names it
Refused(t) ==
    (IF t.waypoints = << >>
     THEN {ConfigError("Mission must have at least one waypoint", -1)} ELSE {})
    \cup (IF t.flight_speed.n > DRONE_CONFIGS[t.drone_model].max_speed.n
          THEN {ConfigError("Speed exceeds drone limit", -1)} ELSE {})
    \cup (IF t.flight_height.n < 0
          THEN {ConfigError("Flight altitude cannot be negative", -1)} ELSE {})
    \cup (IF /\ t.coordinate_system.c["position_type"] = Str("RTKBaseStation")
             /\ t.drone_model \notin {"M350", "M300", "M30", "M30T"}
          THEN {ConfigError("RTK positioning not supported", -1)} ELSE {})
    \cup {ConfigError("Waypoint speed exceeds drone limit", i - 1) :
             i \in {j \in 1..Len(t.waypoints) :
                       /\ t.waypoints[j].waypoint.c["speed"] # None
                       /\ t.waypoints[j].waypoint.c["speed"].n
                              > DRONE_CONFIGS[t.drone_model].max_speed.n}}

\* C23: DroneTask.build() raises ValidationError and returns no document
\* whenever the mission has no waypoint, the global speed exceeds the drone's
\* maximum speed, the global altitude is negative, RTK positioning is selected
\* for a drone without RTK support, or some waypoint's own speed exceeds the
\* maximum speed; when several of these hold together, the one error names
\* every one of them.
C23_BuildRefuses ==
    [][(pc = "task" /\ task # None /\ Refused(task) # {} /\ DroneTask_build) =>
          /\ outcome'.k = "err" /\ outcome'.s = "task_builder.ValidationError"
          /\ {outcome'.c[j] : j \in 1..Len(outcome'.c)} = Refused(task)]_vars

\* build on an M3E with no waypoint, speed 16, altitude -5 and RTK raised one
\* error that names four conditions
C23_Witness ==
    /\ pc = "task" /\ task # None
    /\ task.waypoints = << >>
    /\ outcome.k = "err" /\ outcome.s = "task_builder.ValidationError"
    /\ Len(outcome.c) = 4

\* the turn fields of the waypoint w agree
TurnFieldsAgree(w) ==
    /\ w.c["use_global_turn_param"] \in {Num(0), Num(1)}
    /\ w.c["use_global_turn_param"] = Num(1) <=> w.c["turn_param"] = None
    /\ w.c["turn_param"] # None =>
          (w.c["turn_param"].c["waypoint_turn_damping_dist"] # None
              => w.c["turn_param"].c["waypoint_turn_mode"] = Str("coordinateTurn"))

\* C24: after any sequence of WaypointBuilder.turn_mode calls (valid names,
\* 'default', invalid names) the waypoint has use_global_turn_param = 1
\* exactly when its turn_param is absent and 0 exactly when it is set; a set
\* turn_param has a damping distance only for the early-turn mode; a call with
\* an invalid name raises ValueError and changes neither field; and no such
\* call changes the global turn mode of the mission.
C24_TurnMode ==
    /\ [](pc = "task" /\ task # None =>
             \A i \in 1..Len(task.waypoints) : TurnFieldsAgree(task.waypoints[i].waypoint))
    /\ [][(pc = "task" /\ task # None) =>
             /\ task'.turn_mode # task.turn_mode => ~WaypointBuilder_turn_mode_any
             /\ \A i \in 1..Len(task.waypoints) :
                  \A turn_mode \in WaypointTurnModes \ (DOMAIN TurnModeMapping \cup {"default"}) :
                     (outcome' # None /\ WaypointBuilder_turn_mode_call(i, turn_mode)) =>
                         outcome' = Err("ValueError") /\ task' = task]_vars

\* a waypoint was set to curve_and_stop, then to 'default', under a global
\* mode of curve_and_pass, and the last call named no mode
C24_Witness ==
    /\ pc = "task" /\ task # None
    /\ Len(task.waypoints) = 2
    /\ task.turn_mode = Str("toPointAndPassWithContinuityCurvature")
    /\ task.waypoints[1].waypoint.c["turn_param"] # None
    /\ task.waypoints[1].waypoint.c["turn_param"].c["waypoint_turn_mode"]
           = Str("toPointAndStopWithContinuityCurvature")
    /\ task.waypoints[1].waypoint.c["use_global_turn_param"] = Num(0)
    /\ task.waypoints[2].waypoint.c["turn_param"] = None
    /\ task.waypoints[2].waypoint.c["action_group"] # None
    /\ outcome = Err("ValueError")


====
